---- MODULE Spec2Model ----
(***************************************************************************)
(* Model of the tabular engine of the Datahub dashboard: aggregateData,     *)
(* the PivotTableBuilder and the forecast splice of InteractiveChart        *)
(* (src/components/Dashboard.tsx), and profileColumns (utils/dataUtils).    *)
(*                                                                         *)
(* JavaScript values are tagged records.  A string is a sequence of        *)
(* one-character strings, so that String(), Number(), the relational       *)
(* comparison and template concatenation are computed character by         *)
(* character as the language defines them.  A number is an exact rational  *)
(* n/d (cells hold integers; a quotient only arises from the avg reducer). *)
(* An object is a function from property names (strings) to values.        *)
(***************************************************************************)
EXTENDS Integers, Sequences, FiniteSets

VARIABLES
    rawData,     \* sheet.rawData: the rows of the sheet
    aggArgs,     \* the arguments of the last aggregateData call
    aggOut,      \* its outcome: the returned points, or the exception
    config,      \* PivotTableBuilder: config (useState)
    pivotData,   \* PivotTableBuilder: pivotData (useMemo)
    forecastData,   \* InteractiveChart: forecastData (useState)
    processedData,  \* InteractiveChart: processedData (useMemo)
    columns,     \* the profile profileColumns returned
    chart,       \* InteractiveChart: chartType, isForecasting, the request
    app,         \* App: processing, dataset, analysis, the upload under way
    chat,        \* Dashboard: activeTab, question, chatHistories, isAsking
    call         \* one invocation of generateChartForecast

vars == <<rawData, aggArgs, aggOut, config, pivotData, forecastData,
          processedData, columns, chart, app, chat, call>>

---------------------------------------------------------------------------
(* Bounds of the model *)

MaxRows == 3

MaxPivotRows == 3

---------------------------------------------------------------------------
(* JavaScript primitives *)

\* The characters the model's strings are made of, in ascending order of
\* their UTF-16 code unit.
Alphabet ==
    << ",", "-", ".", "/", "0", "1", "2", "3", "4", "5", "6", "7", "8", "9", ":",
       "A", "B", "C", "D", "E", "F", "G", "H", "I", "J", "K", "L", "M",
       "N", "O", "P", "Q", "R", "S", "T", "U", "V", "W", "X", "Y", "Z",
       "_",
       "a", "b", "c", "d", "e", "f", "g", "h", "i", "j", "k", "l", "m",
       "n", "o", "p", "q", "r", "s", "t", "u", "v", "w", "x", "y", "z" >>

\* The rank of a character in code-unit order.
CodeUnit(c) == CHOOSE i \in 1..Len(Alphabet) : Alphabet[i] = c

Digits == << "0", "1", "2", "3", "4", "5", "6", "7", "8", "9" >>

IsDigit(c) == \E i \in 1..10 : Digits[i] = c

DigitVal(c) == (CHOOSE i \in 1..10 : Digits[i] = c) - 1

RECURSIVE Gcd(_, _)
Gcd(a, b) == IF b = 0 THEN a ELSE Gcd(b, a % b)

Abs(n) == IF n < 0 THEN -n ELSE n

Undefined == [t |-> "undef"]
Null == [t |-> "null"]
NaN == [t |-> "nan"]
Str(s) == [t |-> "str", s |-> s]
Bool(b) == [t |-> "bool", b |-> b]
Arr(a) == [t |-> "arr", a |-> a]

\* The number n/d in lowest terms.
Rat(n, d) == LET g == Gcd(Abs(n), d) IN [t |-> "num", n |-> n \div g, d |-> d \div g]
Num(n) == [t |-> "num", n |-> n, d |-> 1]

NumAdd(x, y) == Rat(x.n * y.d + y.n * x.d, x.d * y.d)
NumLess(x, y) == x.n * y.d < y.n * x.d
\* x / k for a count k >= 1
NumDiv(x, k) == Rat(x.n, x.d * k)

RECURSIVE NatToString(_)
NatToString(n) ==
    IF n < 10 THEN << Digits[n + 1] >>
    ELSE NatToString(n \div 10) \o << Digits[(n % 10) + 1] >>

\* Number::toString of an integral number (the only numbers the code turns
\* into strings are cell values).
NumberToString(x) ==
    IF x.n < 0 THEN << "-" >> \o NatToString(-x.n) ELSE NatToString(x.n)

RECURSIVE DigitsToNat(_)
DigitsToNat(s) ==
    IF s = << >> THEN 0
    ELSE DigitsToNat(SubSeq(s, 1, Len(s) - 1)) * 10 + DigitVal(s[Len(s)])

\* StringToNumber over Alphabet: the empty string is 0, an optionally
\* negated run of decimal digits is its value, anything else is NaN.
StringToNumber(s) ==
    LET neg == s # << >> /\ Head(s) = "-"
        body == IF neg THEN Tail(s) ELSE s
    IN  IF s = << >> THEN Num(0)
        ELSE IF body # << >> /\ \A i \in 1..Len(body) : IsDigit(body[i])
             THEN Num(IF neg THEN -DigitsToNat(body) ELSE DigitsToNat(body))
             ELSE NaN

\* ToNumber
ToNumber(v) ==
    CASE v.t = "num" -> v
      [] v.t = "nan" -> v
      [] v.t = "str" -> StringToNumber(v.s)
      [] v.t = "bool" -> IF v.b THEN Num(1) ELSE Num(0)
      [] v.t = "null" -> Num(0)
      [] v.t = "undef" -> NaN

\* ToBoolean
Truthy(v) ==
    CASE v.t = "num" -> v.n # 0
      [] v.t = "nan" -> FALSE
      [] v.t = "str" -> v.s # << >>
      [] v.t = "bool" -> v.b
      [] v.t = "null" -> FALSE
      [] v.t = "undef" -> FALSE
      [] v.t = "arr" -> TRUE

\* String(v) of a primitive
String(v) ==
    CASE v.t = "str" -> v.s
      [] v.t = "num" -> NumberToString(v)
      [] v.t = "bool" -> IF v.b THEN << "t", "r", "u", "e" >>
                                ELSE << "f", "a", "l", "s", "e" >>
      [] v.t = "null" -> << "n", "u", "l", "l" >>
      [] v.t = "undef" -> << "u", "n", "d", "e", "f", "i", "n", "e", "d" >>
      [] v.t = "nan" -> << "N", "a", "N" >>

\* s < t for strings: lexicographic on code units.
RECURSIVE StrLess(_, _)
StrLess(s, t) ==
    IF t = << >> THEN FALSE
    ELSE IF s = << >> THEN TRUE
    ELSE IF Head(s) = Head(t) THEN StrLess(Tail(s), Tail(t))
    ELSE CodeUnit(Head(s)) < CodeUnit(Head(t))

\* a > b: two strings compare as strings, anything else as numbers, and a
\* comparison with NaN is false.
JsGreater(a, b) ==
    IF a.t = "str" /\ b.t = "str" THEN StrLess(b.s, a.s)
    ELSE LET x == ToNumber(a)
             y == ToNumber(b)
         IN  x.t = "num" /\ y.t = "num" /\ NumLess(y, x)

\* a + b on primitives: concatenation when either is a string, else a sum.
JsAdd(a, b) ==
    IF a.t = "str" \/ b.t = "str" THEN Str(String(a) \o String(b))
    ELSE LET x == ToNumber(a)
             y == ToNumber(b)
         IN  IF x.t = "num" /\ y.t = "num" THEN NumAdd(x, y) ELSE NaN

\* Number(v) || 0
NumberOrZero(v) == LET n == ToNumber(v) IN IF Truthy(n) THEN n ELSE Num(0)

\* v !== null && v !== undefined
Present(v) == v.t \notin {"null", "undef"}

\* obj[k], undefined when obj has no own property k
Get(obj, k) == IF k \in DOMAIN obj THEN obj[k] ELSE Undefined

\* obj[k] = v
Put(obj, k, v) == [p \in DOMAIN obj \cup {k} |-> IF p = k THEN v ELSE obj[p]]

EmptyObject == [p \in {} |-> Undefined]

---------------------------------------------------------------------------
(* aggregateData *)

kCount == << "c", "o", "u", "n", "t" >>
kValues == << "v", "a", "l", "u", "e", "s" >>
kRaw == << "_", "r", "a", "w" >>
kUnknown == << "U", "n", "k", "n", "o", "w", "n" >>

\* Names every object inherits from Object.prototype, among the strings
\* the cells of the model can hold.
ObjectPrototypeProps ==
    { << "c", "o", "n", "s", "t", "r", "u", "c", "t", "o", "r" >>,
      << "t", "o", "S", "t", "r", "i", "n", "g" >>,
      << "v", "a", "l", "u", "e", "O", "f" >> }

\* The accumulator while the rows are visited: the own keys of `grouped`
\* in insertion order, the bucket object of each key, and whether the
\* call has thrown.
NoBuckets == [keys |-> << >>, bucket |-> EmptyObject, threw |-> FALSE]

Thrown(st) == [st EXCEPT !.threw = TRUE]

\* The object literal { [xKey]: xVal, count: 0, values: [], _raw: [] }:
\* a later property of the same name replaces an earlier one.
NewBucket(xKey, xVal) ==
    Put(Put(Put(Put(EmptyObject, xKey, xVal), kCount, Num(0)),
            kValues, Arr(<< >>)), kRaw, Arr(<< >>))

\* The secondary grouping of one row into its bucket b:
\*   groupVal = row[groupKey] || 'Unknown';
\*   if (!b[groupVal]) b[groupVal] = 0;  b[groupVal] += val
\* The breakdown column of the model holds no name of
\* ObjectPrototypeProps, so b[groupVal] reads an own property.
Stack(b, row, groupKey, val) ==
    LET cell == Get(row, groupKey)
        groupVal == String(IF Truthy(cell) THEN cell ELSE Str(kUnknown))
        cur == IF Truthy(Get(b, groupVal)) THEN Get(b, groupVal) ELSE Num(0)
    IN  Put(b, groupVal, JsAdd(cur, val))

\* One iteration of data.forEach.
VisitRow(st, row, xKey, yKey, groupKey) ==
    LET xVal == Get(row, xKey)
        key == String(xVal)
        fresh == ~(\E i \in 1..Len(st.keys) : st.keys[i] = key)
        val == NumberOrZero(Get(row, yKey))
        b0 == IF fresh THEN NewBucket(xKey, xVal) ELSE st.bucket[key]
        b1 == Put(b0, kCount, JsAdd(Get(b0, kCount), Num(1)))
        b2 == Put(b1, kValues, Arr(Append(Get(b1, kValues).a, val)))
        b3 == Put(b2, kRaw, Arr(Append(Get(b2, kRaw).a, row)))
        b4 == IF groupKey # << >> THEN Stack(b3, row, groupKey, val) ELSE b3
    IN  IF st.threw \/ ~Present(xVal) THEN st
        \* grouped[key] is inherited and truthy: no bucket is made, and
        \* grouped[key].values.push is not a function
        ELSE IF fresh /\ key \in ObjectPrototypeProps THEN Thrown(st)
        \* values is no longer an array: push is not a function
        ELSE IF Get(b1, kValues).t # "arr" \/ Get(b1, kRaw).t # "arr"
             THEN Thrown(st)
        ELSE [keys |-> IF fresh THEN Append(st.keys, key) ELSE st.keys,
              bucket |-> Put(st.bucket, key, b4),
              threw |-> FALSE]

RECURSIVE ForEach(_, _, _, _, _)
ForEach(st, data, xKey, yKey, groupKey) ==
    IF data = << >> THEN st
    ELSE ForEach(VisitRow(st, Head(data), xKey, yKey, groupKey),
                 Tail(data), xKey, yKey, groupKey)

\* An array index: the canonical decimal form of an integer below 2^32 - 1.
\* Object.values lists the properties with such names first.
IsArrayIndex(s) ==
    /\ s # << >>
    /\ \A i \in 1..Len(s) : IsDigit(s[i])
    /\ (Len(s) > 1 => s[1] # "0")
    /\ Len(s) <= 9

\* The keys among ks (array indices) in ascending numeric order.
RECURSIVE Ascending(_)
Ascending(ks) ==
    IF ks = {} THEN << >>
    ELSE LET least == CHOOSE k \in ks :
                          \A o \in ks : DigitsToNat(k) <= DigitsToNat(o)
         IN  << least >> \o Ascending(ks \ {least})

\* The order in which Object.values(grouped) lists the buckets: integer
\* keys in ascending order, then the other keys in insertion order.
OwnKeys(keys) ==
    Ascending({keys[i] : i \in {j \in 1..Len(keys) : IsArrayIndex(keys[j])}})
        \o SelectSeq(keys, LAMBDA k : ~IsArrayIndex(k))

RECURSIVE Sum(_)
Sum(values) ==
    IF values = << >> THEN Num(0)
    ELSE NumAdd(Sum(SubSeq(values, 1, Len(values) - 1)), values[Len(values)])

\* A faulty minimum: Math.min applied to the first value only.
MathMinFirst(values) == values[1]

\* Math.min(...values), Math.max(...values) of a non-empty array of numbers
MathMin(values) ==
    values[CHOOSE i \in 1..Len(values) :
               \A j \in 1..Len(values) : ~NumLess(values[j], values[i])]

MathMax(values) ==
    values[CHOOSE i \in 1..Len(values) :
               \A j \in 1..Len(values) : ~NumLess(values[i], values[j])]

AggregationType == {"sum", "avg", "min", "max", "count"}

\* The switch over the reducer.
FinalVal(item, type) ==
    LET values == Get(item, kValues).a
    IN  CASE type = "sum" -> Sum(values)
          [] type = "avg" -> NumDiv(Sum(values), Len(values))
          [] type = "min" -> MathMin(values)
          [] type = "max" -> MathMax(values)
          [] type = "count" -> Get(item, kCount)

\* A faulty callback: the test of groupKey inverted.
ReducedInverted(item, yKey, type, groupKey) ==
    IF groupKey # << >> THEN Put(item, yKey, FinalVal(item, type)) ELSE item

\* The callback of .map: without a breakdown key the reduced value is
\* stored under yKey.
Reduced(item, yKey, type, groupKey) ==
    IF groupKey = << >> THEN Put(item, yKey, FinalVal(item, type)) ELSE item

\* The comparator of .sort answers 1 for two items exactly when
\* a[xKey] > b[xKey], and -1 otherwise.
After(a, b, xKey) == JsGreater(Get(a, xKey), Get(b, xKey))

Permutations(n) ==
    {p \in [1..n -> 1..n] : \A i, j \in 1..n : p[i] = p[j] => i = j}

\* Whether the comparator ranks the items: `after` is transitive and so is
\* being tied (neither item after the other).
Ranked(items, xKey) ==
    LET n == Len(items)
        Aft(i, j) == After(items[i], items[j], xKey)
        Tied(i, j) == ~Aft(i, j) /\ ~Aft(j, i)
    IN  \A i, j, k \in 1..n :
            /\ Aft(i, j) /\ Aft(j, k) => Aft(i, k)
            /\ Tied(i, j) /\ Tied(j, k) => Tied(i, k)

\* Array.prototype.sort with this comparator.  When the comparator ranks
\* the items the result is ascending, tied items in any order (it never
\* answers 0, so no order of ties is promised).  Otherwise the comparator
\* is inconsistent and the order is implementation-defined: any
\* arrangement may result.
SortOrders(items, xKey) ==
    LET n == Len(items)
    IN  IF Ranked(items, xKey)
        THEN {p \in Permutations(n) :
                 \A i, j \in 1..n :
                     i < j => ~After(items[p[i]], items[p[j]], xKey)}
        ELSE Permutations(n)

\* The outcomes of aggregateData(data, xKey, yKey, type, groupKey): either
\* the exception, or the points in one of the orders the sort may give.
\* keys[i] is the name points[i] had in `grouped`.
aggregateData(data, xKey, yKey, type, groupKey) ==
    LET st == ForEach(NoBuckets, data, xKey, yKey, groupKey)
        own == OwnKeys(st.keys)
        items == [i \in 1..Len(own) |->
                     Reduced(st.bucket[own[i]], yKey, type, groupKey)]
    IN  IF st.threw
        THEN {[threw |-> TRUE, keys |-> << >>, points |-> << >>]}
        ELSE {[threw |-> FALSE,
               keys |-> [i \in 1..Len(own) |-> own[p[i]]],
               points |-> [i \in 1..Len(own) |-> items[p[i]]]]
                 : p \in SortOrders(items, xKey)}

---------------------------------------------------------------------------
(* The sheet of the aggregation model *)

kRegion == << "r", "e", "g", "i", "o", "n" >>
kAmt == << "a", "m", "t" >>
kSeg == << "s", "e", "g" >>

Row(region, amt, count, seg) ==
    Put(Put(Put(Put(EmptyObject, kRegion, region), kAmt, amt),
            kCount, count), kSeg, seg)

East == Str(<< "E", "a", "s", "t" >>)
West == Str(<< "W", "e", "s", "t" >>)
SegA == Str(<< "A" >>)
SegB == Str(<< "B" >>)

\* The rows a sheet of the model is made of.  `region` mixes text, numbers
\* and numeric text as spreadsheet columns do; `amt` holds numbers, numeric
\* text, other text and an empty cell; `count` is a numeric column named
\* like the accumulator field; `seg` is the breakdown column.
RowPool ==
    { Row(East, Num(10), Num(2), SegA),
      Row(West, Num(5), Num(3), SegB),
      Row(East, Num(7), Num(2), Null),
      Row(Null, Num(4), Num(1), SegA),
      Row(Num(9), Str(<< "1", "2" >>), Num(0), Num(0)),
      Row(Str(<< "9" >>), Null, Num(3), Str(kCount)),
      Row(Str(<< "1", "0" >>), Str(<< "n", "o" >>), Num(1), SegB),
      Row(Str(<< "8" >>), Num(-3), Num(4), SegA),
      Row(Str(<< "c", "o", "n", "s", "t", "r", "u", "c", "t", "o", "r" >>),
          Num(1), Num(1), SegA) }

SeqsUpTo(S, n) == UNION {[1..k -> S] : k \in 0..n}

XKeys == {kRegion, kCount}
YKeys == {kAmt, kCount}
GroupKeys == {<< >>, kSeg}

NotCalled == [threw |-> FALSE, keys |-> << >>, points |-> << >>, called |-> FALSE]

AggArgs ==
    [xKey : XKeys, yKey : YKeys, type : AggregationType, groupKey : GroupKeys]

\* The sheet and the arguments of the call are the inputs; nothing has been
\* computed yet.
Init ==
    /\ rawData \in SeqsUpTo(RowPool, MaxRows)
    /\ aggArgs \in AggArgs
    /\ aggOut = NotCalled
    /\ config = << >>
    /\ pivotData = << >>
    /\ forecastData = << >>
    /\ processedData = << >>
    /\ columns = << >>
    /\ chart = << >>
    /\ app = << >>
    /\ chat = << >>
    /\ call = << >>

\* The call aggregateData(sheet.rawData, xKey, yKey, type, groupKey).
Aggregate ==
    /\ ~aggOut.called
    /\ \E out \in aggregateData(rawData, aggArgs.xKey, aggArgs.yKey,
                                 aggArgs.type, aggArgs.groupKey) :
           aggOut' = [threw |-> out.threw, keys |-> out.keys,
                      points |-> out.points, called |-> TRUE]
    /\ UNCHANGED <<rawData, aggArgs, config, pivotData, forecastData,
                   processedData, columns,
                   chart, app, chat, call>>

Next == Aggregate

Spec == Init /\ [][Next]_vars

---------------------------------------------------------------------------
(* Properties of aggregateData, stated over the rows of the sheet *)

\* The call has returned its points.
Returned == aggOut.called /\ ~aggOut.threw

\* The rows that belong to the bucket named k: those whose group-key value
\* is present and has the string representation k.
BucketRows(k) ==
    {i \in 1..Len(rawData) :
        /\ Present(Get(rawData[i], aggArgs.xKey))
        /\ String(Get(rawData[i], aggArgs.xKey)) = k}

GroupedRows ==
    {i \in 1..Len(rawData) : Present(Get(rawData[i], aggArgs.xKey))}

\* The coerced metric values of the rows in S, as integers, in row order.
MetricsOf(S) ==
    LET F[i \in 0..Len(rawData)] ==
            IF i = 0 THEN << >>
            ELSE IF i \in S
                 THEN Append(F[i - 1],
                             NumberOrZero(Get(rawData[i], aggArgs.yKey)).n)
                 ELSE F[i - 1]
    IN  F[Len(rawData)]

RECURSIVE Total(_)
Total(ints) == IF ints = << >> THEN 0 ELSE Head(ints) + Total(Tail(ints))

\* v is what the reducer `type` makes of the integers ints.
IsReduction(type, v, ints) ==
    /\ v.t = "num"
    /\ CASE type = "sum" -> v.n = Total(ints) /\ v.d = 1
         [] type = "avg" -> v.n * Len(ints) = Total(ints) * v.d
         [] type = "min" -> /\ v.d = 1
                            /\ \E i \in 1..Len(ints) : ints[i] = v.n
                            /\ \A i \in 1..Len(ints) : v.n <= ints[i]
         [] type = "max" -> /\ v.d = 1
                            /\ \E i \in 1..Len(ints) : ints[i] = v.n
                            /\ \A i \in 1..Len(ints) : v.n >= ints[i]
         [] type = "count" -> v.n = Len(ints) /\ v.d = 1

NPoints == Len(aggOut.points)

\* C1: aggregation is a partition: every row with a present group-key value
\* belongs to exactly one returned point, and the count fields of the
\* returned points add up to the number of those rows.
ClaimPartition ==
    Returned =>
        /\ \A i \in GroupedRows :
               Cardinality({j \in 1..NPoints : i \in BucketRows(aggOut.keys[j])}) = 1
        /\ \A j \in 1..NPoints : Get(aggOut.points[j], kCount).t = "num"
        /\ Total([j \in 1..NPoints |-> Get(aggOut.points[j], kCount).n])
               = Cardinality(GroupedRows)

\* C2: without a breakdown key, every returned point holds under the metric
\* key the sum, mean, minimum or maximum (as requested) of the coerced
\* metric values of exactly the rows of its bucket.
MetricIsReduction ==
    (Returned /\ aggArgs.groupKey = << >> /\ aggArgs.type # "count") =>
        \A j \in 1..NPoints :
            IsReduction(aggArgs.type, Get(aggOut.points[j], aggArgs.yKey),
                        MetricsOf(BucketRows(aggOut.keys[j])))

\* The scenario East:10, West:5, East:7 under sum: East 17, West 5.
MetricIsReductionWitness ==
    /\ Returned
    /\ aggArgs = [xKey |-> kRegion, yKey |-> kAmt, type |-> "sum",
                  groupKey |-> << >>]
    /\ [i \in 1..Len(rawData) |-> Get(rawData[i], kAmt)]
           = << Num(10), Num(5), Num(7) >>
    /\ aggOut.keys = << East.s, West.s >>
    /\ Get(aggOut.points[1], kAmt) = Num(17)
    /\ Get(aggOut.points[2], kAmt) = Num(5)

\* C3: with the count reducer and no breakdown key, the metric field of
\* every returned point is the number of rows of its bucket.
CountIsBucketSize ==
    (Returned /\ aggArgs.groupKey = << >> /\ aggArgs.type = "count") =>
        \A j \in 1..NPoints :
            Get(aggOut.points[j], aggArgs.yKey)
                = Num(Cardinality(BucketRows(aggOut.keys[j])))

\* A count over a bucket of two rows, the metric column being the group
\* key itself, a column named like the accumulator field.
CountIsBucketSizeWitness ==
    /\ Returned
    /\ aggArgs = [xKey |-> kCount, yKey |-> kCount, type |-> "count",
                  groupKey |-> << >>]
    /\ \E j \in 1..NPoints :
           /\ aggOut.keys[j] = << "3" >>
           /\ Cardinality(BucketRows(<< "3" >>)) = 2
           /\ Get(aggOut.points[j], kCount) = Num(2)

\* C4: the returned points are in ascending order of their group-key value:
\* no point is followed by one with a smaller value.
ClaimAscending ==
    Returned =>
        \A i, j \in 1..NPoints :
            i < j => ~JsGreater(Get(aggOut.points[i], aggArgs.xKey),
                                Get(aggOut.points[j], aggArgs.xKey))

\* C5: there is exactly one returned point per distinct string
\* representation of the present group-key values, none for an absent
\* value, and each point holds under the group key the value of the first
\* row of its bucket.
ClaimOnePointPerKey ==
    Returned =>
        /\ {aggOut.keys[j] : j \in 1..NPoints}
               = {String(Get(rawData[i], aggArgs.xKey)) : i \in GroupedRows}
        /\ \A i, j \in 1..NPoints : aggOut.keys[i] = aggOut.keys[j] => i = j
        /\ \A j \in 1..NPoints :
               LET rows == BucketRows(aggOut.keys[j])
                   first == CHOOSE i \in rows : \A o \in rows : i <= o
               IN  Get(aggOut.points[j], aggArgs.xKey)
                       = Get(rawData[first], aggArgs.xKey)

\* C6: with a breakdown key, for every bucket and every breakdown value b
\* present in it, the point's field named b is the sum of the coerced
\* metric values of the bucket's rows whose breakdown value is b.
ClaimBreakdownSums ==
    (Returned /\ aggArgs.groupKey # << >>) =>
        \A j \in 1..NPoints :
            \A i \in BucketRows(aggOut.keys[j]) :
                LET b == Get(rawData[i], aggArgs.groupKey)
                    same == {o \in BucketRows(aggOut.keys[j]) :
                                /\ Present(Get(rawData[o], aggArgs.groupKey))
                                /\ String(Get(rawData[o], aggArgs.groupKey))
                                       = String(b)}
                IN  Present(b) =>
                        Get(aggOut.points[j], String(b)) = Num(Total(MetricsOf(same)))

\* C7: aggregateData never throws.
ClaimNeverThrows == aggOut.called => ~aggOut.threw

---------------------------------------------------------------------------
(* PivotTableBuilder *)

kNA == << "N", "/", "A" >>
kTotal == << "T", "o", "t", "a", "l" >>

\* rKey = String(row[config.rowLabel] || 'N/A')
RowKey(row, rowLabel) ==
    LET cell == Get(row, rowLabel)
    IN  String(IF Truthy(cell) THEN cell ELSE Str(kNA))

\* A faulty column key: the label is read from the row even when no
\* column-label key is configured.
ColKeyNoTotal(row, colLabel) ==
    LET cell == Get(row, colLabel)
    IN  String(IF Truthy(cell) THEN cell ELSE Str(kNA))

\* cKey = config.colLabel ? String(row[config.colLabel] || 'N/A') : 'Total'
ColKey(row, colLabel) ==
    IF colLabel # << >>
    THEN LET cell == Get(row, colLabel)
         IN  String(IF Truthy(cell) THEN cell ELSE Str(kNA))
    ELSE kTotal

\* The template `${rKey}::${cKey}`
CellKey(rKey, cKey) == rKey \o << ":", ":" >> \o cKey

\* rows, cols and valueMap after the rows data have been visited.
RECURSIVE Collect(_, _)
Collect(data, cfg) ==
    IF data = << >> THEN [rows |-> {}, cols |-> {}, valueMap |-> EmptyObject]
    ELSE LET acc == Collect(SubSeq(data, 1, Len(data) - 1), cfg)
             row == data[Len(data)]
             rKey == RowKey(row, cfg.rowLabel)
             cKey == ColKey(row, cfg.colLabel)
             val == NumberOrZero(Get(row, cfg.valueField))
             key == CellKey(rKey, cKey)
             old == IF key \in DOMAIN acc.valueMap THEN acc.valueMap[key]
                    ELSE << >>
         IN  [rows |-> acc.rows \cup {rKey},
              cols |-> acc.cols \cup {cKey},
              valueMap |-> Put(acc.valueMap, key, Append(old, val))]

\* A faulty sort: the labels in descending order.
RECURSIVE SortedDescending(_)
SortedDescending(S) ==
    IF S = {} THEN << >>
    ELSE LET most == CHOOSE s \in S : \A o \in S : ~StrLess(s, o)
         IN  << most >> \o SortedDescending(S \ {most})

\* Array.from(set).sort(): strings in ascending code-unit order.
RECURSIVE Sorted(_)
Sorted(S) ==
    IF S = {} THEN << >>
    ELSE LET least == CHOOSE s \in S : \A o \in S : ~StrLess(o, s)
         IN  << least >> \o Sorted(S \ {least})

\* The value of the useMemo: { sortedRows, sortedCols, valueMap }.
PivotOf(data, cfg) ==
    LET acc == Collect(data, cfg)
    IN  [sortedRows |-> Sorted(acc.rows), sortedCols |-> Sorted(acc.cols),
         valueMap |-> acc.valueMap]

\* pivotData.valueMap.get(`${rowKey}::${colKey}`): the values of a cell of
\* the table, or undefined.
CellValues(pd, rowKey, colKey) == Get(pd.valueMap, CellKey(rowKey, colKey))

kHole == << "-" >>

\* The decimal separators of the locales a browser may run in
\* (toLocaleString(undefined, ...) formats in the default locale).
DecimalSeparators == {".", ","}

RECURSIVE Pow10(_)
Pow10(k) == IF k = 0 THEN 1 ELSE 10 * Pow10(k - 1)

\* The k digits of f, zero-padded on the left, without trailing zeros.
RECURSIVE FractionDigits(_, _)
FractionDigits(f, k) ==
    IF k = 0 \/ f = 0 THEN << >>
    ELSE << Digits[(f \div Pow10(k - 1)) + 1] >>
             \o FractionDigits(f % Pow10(k - 1), k - 1)

\* x.toLocaleString(undefined, { maximumFractionDigits: k }): x rounded to
\* k fraction digits, halves away from zero, trailing zeros dropped.  The
\* numbers of the model stay below 1000, where no grouping separator is
\* written.
toLocaleString(x, k, sep) ==
    LET m == (2 * Abs(x.n) * Pow10(k) + x.d) \div (2 * x.d)
        int == NatToString(m \div Pow10(k))
        frac == FractionDigits(m % Pow10(k), k)
    IN  (IF x.n < 0 THEN << "-" >> ELSE << >>)
            \o int \o (IF frac = << >> THEN << >> ELSE << sep >> \o frac)

\* getAggregatedValue(values) under config.aggregation; values is an
\* array or undefined.  toLocaleString() without options keeps up to
\* three fraction digits.
getAggregatedValue(values, aggregation, sep) ==
    IF values.t = "undef" THEN Str(kHole)
    ELSE IF Len(values.a) = 0 THEN Str(kHole)
    ELSE CASE aggregation = "sum" ->
                  Str(toLocaleString(Sum(values.a), 1, sep))
           [] aggregation = "avg" ->
                  Str(toLocaleString(NumDiv(Sum(values.a), Len(values.a)), 1, sep))
           [] aggregation = "count" -> Num(Len(values.a))
           [] aggregation = "min" -> Str(toLocaleString(MathMin(values.a), 3, sep))
           [] aggregation = "max" -> Str(toLocaleString(MathMax(values.a), 3, sep))

\* The content of the table cell (rowKey, colKey):
\* getAggregatedValue(pivotData.valueMap.get(`${rowKey}::${colKey}`))
Cell(pd, rowKey, colKey, aggregation, sep) ==
    LET key == CellKey(rowKey, colKey)
    IN  getAggregatedValue(IF key \in DOMAIN pd.valueMap
                           THEN Arr(pd.valueMap[key]) ELSE Undefined,
                           aggregation, sep)

\* The columns of the sheet: the keys of its first row.
Columns == << kRegion, kAmt, kCount, kSeg >>

\* Whether the profile of column c has type number: its first present
\* value is a number.
IsNumberColumn(data, c) ==
    \E i \in 1..Len(data) :
        /\ Get(data[i], c).t = "num"
        /\ \A j \in 1..(i - 1) : ~Present(Get(data[j], c))

NumberColumns(data) == SelectSeq(Columns, LAMBDA c : IsNumberColumn(data, c))

\* The initial config of useState.
InitialConfig(data) ==
    [rowLabel |-> Columns[1],
     colLabel |-> << >>,
     valueField |-> IF NumberColumns(data) # << >> THEN NumberColumns(data)[1]
                    ELSE Columns[2],
     aggregation |-> "sum"]

Colon(a, b) == Str(a \o << ":", ":" >> \o b)

\* The rows a pivoted sheet of the model is made of: labels that are text,
\* that contain the separator of the cell key, and the falsy values 0,
\* the empty string and null.
PivotRowPool ==
    { Row(Colon(<< "a" >>, << "b" >>), Num(1), Num(2), Str(<< "c" >>)),
      Row(Str(<< "a" >>), Num(2), Num(3), Colon(<< "b" >>, << "c" >>)),
      Row(Num(0), Str(<< "7" >>), Num(0), Str(<< "c" >>)),
      Row(Colon(<< "a" >>, << "b" >>), Null, Num(-3), Str(<< >>)) }

NonEmptySeqsUpTo(S, n) == UNION {[1..k -> S] : k \in 1..n}

InitPivot ==
    /\ rawData \in NonEmptySeqsUpTo(PivotRowPool, MaxPivotRows)
    /\ config = InitialConfig(rawData)
    /\ pivotData = PivotOf(rawData, config)
    /\ aggArgs = << >>
    /\ aggOut = NotCalled
    /\ forecastData = << >>
    /\ processedData = << >>
    /\ columns = << >>
    /\ chart = << >>
    /\ app = << >>
    /\ chat = << >>
    /\ call = << >>

\* setConfig(next), and the useMemo that follows the change of config.
SetConfig(next) ==
    /\ config' = next
    /\ pivotData' = PivotOf(rawData, next)
    /\ UNCHANGED <<rawData, aggArgs, aggOut, forecastData, processedData,
                   columns,
                   chart, app, chat, call>>

\* The four selectors of the pivot table.
SetRowLabel ==
    \E i \in 1..Len(Columns) : SetConfig([config EXCEPT !.rowLabel = Columns[i]])

SetColLabel ==
    \E c \in {<< >>} \cup {Columns[i] : i \in 1..Len(Columns)} :
        SetConfig([config EXCEPT !.colLabel = c])

SetValueField ==
    \E i \in 1..Len(NumberColumns(rawData)) :
        SetConfig([config EXCEPT !.valueField = NumberColumns(rawData)[i]])

SetAggregation ==
    \E a \in AggregationType : SetConfig([config EXCEPT !.aggregation = a])

NextPivot == SetRowLabel \/ SetColLabel \/ SetValueField \/ SetAggregation

SpecPivot == InitPivot /\ [][NextPivot]_vars

---------------------------------------------------------------------------
(* Properties of the pivot, stated over the rows of the sheet *)

\* The rows whose labels, as the pivot computes them, are r and c.
CellRows(r, c) ==
    {i \in 1..Len(rawData) :
        /\ RowKey(rawData[i], config.rowLabel) = r
        /\ ColKey(rawData[i], config.colLabel) = c}

\* The coerced value-field values of the rows in S, in row order.
ValuesOf(S) ==
    LET F[i \in 0..Len(rawData)] ==
            IF i = 0 THEN << >>
            ELSE IF i \in S
                 THEN Append(F[i - 1],
                             NumberOrZero(Get(rawData[i], config.valueField)))
                 ELSE F[i - 1]
    IN  F[Len(rawData)]

Range(s) == {s[i] : i \in 1..Len(s)}

\* C8: the values reduced for the cell (r, c) are exactly the coerced
\* value-field values of the rows labelled r and c; no row with another
\* pair of labels contributes to it.
ClaimCellExact ==
    \A r \in Range(pivotData.sortedRows), c \in Range(pivotData.sortedCols) :
        IF CellRows(r, c) = {}
        THEN CellValues(pivotData, r, c) = Undefined
        ELSE CellValues(pivotData, r, c) = ValuesOf(CellRows(r, c))

\* The label the design gives a value: "N/A" for an absent one, its own
\* string representation for every present one.
LabelOf(v) == IF Present(v) THEN String(v) ELSE kNA

\* C9: only an absent row-label or column-label value is bucketed under
\* "N/A"; every present value, 0, false and the empty string included, is
\* bucketed under its own string representation.
ClaimOnlyAbsentIsNA ==
    /\ Range(pivotData.sortedRows)
           = {LabelOf(Get(rawData[i], config.rowLabel)) : i \in 1..Len(rawData)}
    /\ config.colLabel # << >> =>
           Range(pivotData.sortedCols)
               = {LabelOf(Get(rawData[i], config.colLabel)) : i \in 1..Len(rawData)}

\* C10: a pivot of a non-empty sheet with no column-label key has exactly
\* one column label, "Total", and every row contributes to that column.
TotalColumn ==
    (config.colLabel = << >> /\ rawData # << >>) =>
        /\ pivotData.sortedCols = << kTotal >>
        /\ \A i \in 1..Len(rawData) :
               \E r \in Range(pivotData.sortedRows) :
                   /\ i \in CellRows(r, kTotal)
                   /\ CellValues(pivotData, r, kTotal) = ValuesOf(CellRows(r, kTotal))

\* A pivot without column labels, computed after the column labels were
\* switched on and off again, over two rows with different row labels.
TotalColumnWitness ==
    /\ config.colLabel = << >>
    /\ config.rowLabel = kSeg
    /\ Len(rawData) = 2
    /\ Len(pivotData.sortedRows) = 2
    /\ pivotData.sortedCols = << kTotal >>

\* The list axis holds each of the labels once, in ascending order.
IsAxisOf(axis, labels) ==
    /\ Range(axis) = labels
    /\ \A i, j \in 1..Len(axis) : i < j => StrLess(axis[i], axis[j])

\* The rows of the sheet in the order p.
Reordered(p) == [i \in 1..Len(rawData) |-> rawData[p[i]]]

\* C11: the row-label list and the column-label list each hold every label
\* of the rows exactly once, in ascending lexicographic order, and the
\* pivot of the same rows in any other order has the same two lists.
ClaimAxes ==
    /\ IsAxisOf(pivotData.sortedRows,
                {RowKey(rawData[i], config.rowLabel) : i \in 1..Len(rawData)})
    /\ IsAxisOf(pivotData.sortedCols,
                {ColKey(rawData[i], config.colLabel) : i \in 1..Len(rawData)})
    /\ \A p \in Permutations(Len(rawData)) :
           LET other == PivotOf(Reordered(p), config)
           IN  /\ other.sortedRows = pivotData.sortedRows
               /\ other.sortedCols = pivotData.sortedCols

\* A pivot with row and column labels whose rows arrive in descending
\* order of both labels.
ClaimAxesWitness ==
    /\ config.rowLabel = kRegion
    /\ config.colLabel = kSeg
    /\ Len(rawData) = 2
    /\ StrLess(RowKey(rawData[2], kRegion), RowKey(rawData[1], kRegion))
    /\ StrLess(ColKey(rawData[2], kSeg), ColKey(rawData[1], kSeg))
    /\ Len(pivotData.sortedRows) = 2
    /\ Len(pivotData.sortedCols) = 2

IsHole(v) == v.t = "str" /\ v.s = kHole

\* C12: under each reducer a cell of the table shows the hole marker
\* exactly when no row of the sheet has the cell's row label and column
\* label.
ClaimHole ==
    \A r \in Range(pivotData.sortedRows), c \in Range(pivotData.sortedCols),
       sep \in DecimalSeparators :
        IsHole(Cell(pivotData, r, c, config.aggregation, sep))
            <=> CellRows(r, c) = {}

---------------------------------------------------------------------------
(* InteractiveChart: processedData, the splice of the aggregated series
   and the forecast *)

MaxSpliceRows == 2

MaxForecast == 2

kIsForecast == << "_", "i", "s", "F", "o", "r", "e", "c", "a", "s", "t" >>

\* The template `${yKey}_forecast`
ForecastKey(yKey) == yKey \o << "_", "f", "o", "r", "e", "c", "a", "s", "t" >>

\* { ...item, [forecastKey]: null }: a copy of an aggregated point
Historical(item, yKey) == Put(item, ForecastKey(yKey), Null)

\* combined[combined.length - 1][forecastKey] =
\*     combined[combined.length - 1][yKey], when combined is not empty
Junction(combined, yKey) ==
    IF Len(combined) > 0
    THEN [combined EXCEPT ![Len(combined)] =
              Put(@, ForecastKey(yKey), Get(@, yKey))]
    ELSE combined

\* A faulty forecast point: the historical metric field is kept.
ForecastPointKeepingMetric(item, yKey) ==
    Put(Put(item, ForecastKey(yKey), Get(item, yKey)), kIsForecast, Bool(TRUE))

\* { ...item, [yKey]: null, [forecastKey]: item[yKey], _isForecast: true }
ForecastPoint(item, yKey) ==
    Put(Put(Put(item, yKey, Null), ForecastKey(yKey), Get(item, yKey)),
        kIsForecast, Bool(TRUE))

\* The body of the branch forecastData.length > 0.
Combined(baseData, forecast, yKey) ==
    Junction([i \in 1..Len(baseData) |-> Historical(baseData[i], yKey)], yKey)
        \o [i \in 1..Len(forecast) |-> ForecastPoint(forecast[i], yKey)]

\* A faulty splice: the forecast fields are added whether or not there is
\* a forecast.
SpliceAlways(baseData, forecast, yKey) == Combined(baseData, forecast, yKey)

\* The value of the useMemo, given the points aggregateData returned.
Splice(baseData, forecast, yKey) ==
    IF Len(forecast) > 0 THEN Combined(baseData, forecast, yKey) ELSE baseData

\* The rows a charted sheet of the model is made of.
SpliceRowPool ==
    { Row(East, Num(10), Num(2), SegA),
      Row(West, Num(5), Num(3), SegB),
      Row(East, Num(7), Num(2), Null),
      Row(Null, Num(4), Num(1), SegA),
      Row(Str(<< "c", "o", "n", "s", "t", "r", "u", "c", "t", "o", "r" >>),
          Num(1), Num(1), SegA) }

\* A point of the forecast: an object with the x-axis key (a string) and
\* the metric key (a number) the forecast was requested with.
Predicted(xKey, x, yKey, y) == Put(Put(EmptyObject, xKey, Str(x)), yKey, Num(y))

\* The points a forecast of the model is made of: two requested for the
\* metric amt, one of them predicting 0, and one requested for the metric
\* count.
ForecastPool ==
    { Predicted(kRegion, << "N", "e", "x", "t" >>, kAmt, 12),
      Predicted(kRegion, << "T", "h", "e", "n" >>, kAmt, 0),
      Predicted(kRegion, << "N", "e", "x", "t" >>, kCount, 4) }

NotRendered == [status |-> "none", points |-> << >>]

\* A chart with its selectors set and a forecast applied or not; nothing
\* has been rendered yet.
InitSplice ==
    /\ rawData \in SeqsUpTo(SpliceRowPool, MaxSpliceRows)
    /\ aggArgs \in AggArgs
    /\ forecastData \in SeqsUpTo(ForecastPool, MaxForecast)
    /\ aggOut = NotCalled
    /\ processedData = NotRendered
    /\ config = << >>
    /\ pivotData = << >>
    /\ columns = << >>
    /\ chart = << >>
    /\ app = << >>
    /\ chat = << >>
    /\ call = << >>

\* The render of the chart: the useMemo computes processedData from
\* aggregateData(sheet.rawData, xAxis, yKey, aggregation, groupBy ||
\* undefined) and forecastData; an exception of aggregateData leaves the
\* render.
Render ==
    /\ processedData.status = "none"
    /\ \E out \in aggregateData(rawData, aggArgs.xKey, aggArgs.yKey,
                                 aggArgs.type, aggArgs.groupKey) :
           /\ aggOut' = [threw |-> out.threw, keys |-> out.keys,
                         points |-> out.points, called |-> TRUE]
           /\ processedData' =
                  IF out.threw THEN [status |-> "threw", points |-> << >>]
                  ELSE [status |-> "ok",
                        points |-> Splice(out.points, forecastData, aggArgs.yKey)]
    /\ UNCHANGED <<rawData, aggArgs, forecastData, config, pivotData, columns,
                   chart, app, chat, call>>

NextSplice == Render

SpecSplice == InitSplice /\ [][NextSplice]_vars

---------------------------------------------------------------------------
(* Properties of the splice *)

Rendered == processedData.status = "ok"

\* The object obj without its property k.
Without(obj, k) == [q \in DOMAIN obj \ {k} |-> obj[q]]

\* C13: with a non-empty forecast and a non-empty historical series, with
\* or without a breakdown key, the forecast field of the last historical
\* point is the reduced metric value of that point's rows, and the
\* forecast field of every other historical point is null.
ClaimJunction ==
    (Rendered /\ forecastData # << >> /\ NPoints > 0) =>
        /\ IsReduction(aggArgs.type,
                       Get(processedData.points[NPoints],
                           ForecastKey(aggArgs.yKey)),
                       MetricsOf(BucketRows(aggOut.keys[NPoints])))
        /\ \A j \in 1..(NPoints - 1) :
               Get(processedData.points[j], ForecastKey(aggArgs.yKey)) = Null

\* C14: with an empty forecast the displayed series is the aggregated
\* series point for point, and no point has a forecast field or the
\* forecast-origin tag.
ClaimNoOp ==
    (Rendered /\ forecastData = << >>) =>
        /\ processedData.points = aggOut.points
        /\ \A j \in 1..Len(processedData.points) :
               /\ ForecastKey(aggArgs.yKey) \notin DOMAIN processedData.points[j]
               /\ kIsForecast \notin DOMAIN processedData.points[j]

\* Two historical points displayed without a forecast.
ClaimNoOpWitness ==
    /\ Rendered
    /\ forecastData = << >>
    /\ NPoints = 2
    /\ Len(processedData.points) = 2

\* C15: with a non-empty forecast the displayed series is the historical
\* points in their order, untagged, followed by one point per forecast
\* point in the forecast's order; such a point has a null metric field, the
\* forecast point's metric value in its forecast field, the tag, and the
\* forecast point's other fields.
ClaimAppend ==
    (Rendered /\ forecastData # << >>) =>
        LET fk == ForecastKey(aggArgs.yKey)
            out == processedData.points
        IN  /\ Len(out) = NPoints + Len(forecastData)
            /\ \A j \in 1..NPoints :
                   /\ Without(out[j], fk) = aggOut.points[j]
                   /\ kIsForecast \notin DOMAIN out[j]
            /\ \A k \in 1..Len(forecastData) :
                   LET pt == out[NPoints + k]
                       item == forecastData[k]
                   IN  /\ Get(pt, aggArgs.yKey) = Null
                       /\ Get(pt, fk) = Get(item, aggArgs.yKey)
                       /\ Get(pt, kIsForecast) = Bool(TRUE)
                       /\ \A q \in DOMAIN item \ {aggArgs.yKey} :
                              Get(pt, q) = item[q]

\* Two historical points followed by two forecast points for the metric
\* amt, predicting 12 and 0.
ClaimAppendWitness ==
    /\ Rendered
    /\ aggArgs.yKey = kAmt
    /\ NPoints = 2
    /\ Len(forecastData) = 2
    /\ Len(processedData.points) = 4
    /\ Get(processedData.points[3], ForecastKey(kAmt)) = Num(12)
    /\ Get(processedData.points[4], ForecastKey(kAmt)) = Num(0)

---------------------------------------------------------------------------
(* profileColumns *)

MaxProfileRows == 3

kNote == << "n", "o", "t", "e" >>

\* The order in which sheet_to_json inserts the keys of a row: the order
\* of the header cells.
HeaderOrder == Columns \o << kNote >>

\* Object.keys(row): the own keys in insertion order (no key of the model
\* is an array index).
ObjectKeys(row) == SelectSeq(HeaderOrder, LAMBDA k : k \in DOMAIN row)

\* A faulty key list: the keys of all the rows.
KeysOfAllRows(data) ==
    SelectSeq(HeaderOrder,
              LAMBDA k : \E i \in 1..Len(data) : k \in DOMAIN data[i])

\* const keys = Object.keys(data[0])
KeysOf(data) == ObjectKeys(data[1])

\* data.map(row => row[key]).filter(v => v !== null && v !== undefined)
ValuesIn(data, key) ==
    SelectSeq([i \in 1..Len(data) |-> Get(data[i], key)], Present)

\* The elements of new Set(values), in insertion order.
RECURSIVE SetOf(_)
SetOf(values) ==
    IF values = << >> THEN << >>
    ELSE LET init == SetOf(SubSeq(values, 1, Len(values) - 1))
             last == values[Len(values)]
         IN  IF \E i \in 1..Len(init) : init[i] = last THEN init
             ELSE Append(init, last)

\* A faulty count: the length of the list of values.
SizeOfList(values) == Len(values)

\* distinctValues.size
Size(values) == Len(SetOf(values))

\* Array.from(distinctValues).slice(0, 5)
SampleValues(values) ==
    LET all == SetOf(values)
    IN  SubSeq(all, 1, IF Len(all) < 5 THEN Len(all) ELSE 5)

\* A faulty sample: the last value of the column.
LastSample(values) ==
    IF values = << >> THEN Undefined ELSE values[Len(values)]

\* const sample = values[0]
Sample(values) == IF values = << >> THEN Undefined ELSE values[1]

HasDigit(s) == \E i \in 1..Len(s) : IsDigit(s[i])

AllDigits(s) == \A i \in 1..Len(s) : IsDigit(s[i])

\* A string in the date format every engine parses: YYYY, YYYY-MM or
\* YYYY-MM-DD, with a month of 01..12 and a day every month has.
IsIsoDate(s) ==
    LET year == Len(s) >= 4 /\ AllDigits(SubSeq(s, 1, 4))
        month == /\ Len(s) >= 7 /\ s[5] = "-" /\ AllDigits(SubSeq(s, 6, 7))
                 /\ DigitsToNat(SubSeq(s, 6, 7)) \in 1..12
        day == /\ Len(s) = 10 /\ s[8] = "-" /\ AllDigits(SubSeq(s, 9, 10))
               /\ DigitsToNat(SubSeq(s, 9, 10)) \in 1..28
    IN  \/ year /\ Len(s) = 4
        \/ year /\ month /\ Len(s) = 7
        \/ year /\ month /\ day

\* Strings whose parse is left to the engine: those not in the date
\* format that hold a digit.  A string without a digit is not a date.
EngineDefined(s) == HasDigit(s) /\ ~IsIsoDate(s)

\* !isNaN(Date.parse(s)) in an engine that parses the strings of the set
\* engine besides the date format.
DateParses(s, engine) == IsIsoDate(s) \/ s \in engine

Includes(s, c) == \E i \in 1..Len(s) : s[i] = c

\* The type detection of a sample.  The cells of a sheet are strings,
\* numbers, booleans or null, so `sample instanceof Date` is false.
TypeOf(sample, engine) ==
    IF sample.t = "num" THEN "number"
    ELSE IF sample.t = "bool" THEN "boolean"
    ELSE IF /\ sample.t = "str"
            /\ DateParses(sample.s, engine)
            /\ Len(sample.s) > 5
            /\ (Includes(sample.s, "-") \/ Includes(sample.s, "/"))
         THEN "date"
    ELSE "string"

\* Math.min / Math.max of values that are coerced to numbers: NaN when a
\* value is not numeric.
Coerced(values) == [i \in 1..Len(values) |-> ToNumber(values[i])]

AnyNaN(nums) == \E i \in 1..Len(nums) : nums[i].t = "nan"

\* A faulty minimum: computed whatever the type is.
MinAlways(type, values) ==
    IF values = << >> THEN Num(0)
    ELSE IF AnyNaN(Coerced(values)) THEN NaN ELSE MathMin(Coerced(values))

\* min: Math.min(...numValues) if type is number, else left undefined
Min(type, values) ==
    IF type = "number"
    THEN IF AnyNaN(Coerced(values)) THEN NaN ELSE MathMin(Coerced(values))
    ELSE Undefined

\* max: Math.max(...numValues) if type is number, else left undefined
Max(type, values) ==
    IF type = "number"
    THEN IF AnyNaN(Coerced(values)) THEN NaN ELSE MathMax(Coerced(values))
    ELSE Undefined

\* The callback of keys.map: the profile of one column.
ProfileOf(data, key, engine) ==
    LET values == ValuesIn(data, key)
        type == TypeOf(Sample(values), engine)
    IN  [name |-> key,
         type |-> type,
         sampleValues |-> SampleValues(values),
         distinctCount |-> Size(values),
         min |-> Min(type, values),
         max |-> Max(type, values)]

\* The strings among the cells of data.
CellStrings(data) ==
    {data[i][k].s : <<i, k>> \in
        {ik \in (1..Len(data)) \X {kRegion, kAmt, kCount, kSeg, kNote} :
            /\ ik[2] \in DOMAIN data[ik[1]]
            /\ data[ik[1]][ik[2]].t = "str"}}

\* A faulty profiler: without the test of data.length, an empty sheet gets
\* a profile of a first column.
profileColumnsUnguarded(data) ==
    {[i \in 1..(IF Len(data) = 0 THEN 1 ELSE Len(KeysOf(data))) |->
         ProfileOf(data, IF Len(data) = 0 THEN Columns[1] ELSE KeysOf(data)[i],
                   engine)] :
       engine \in SUBSET {s \in CellStrings(data) : EngineDefined(s)}}

\* The profiles profileColumns(data) may return, one per engine.
profileColumns(data) ==
    IF Len(data) = 0 THEN {<< >>}
    ELSE {[i \in 1..Len(KeysOf(data)) |-> ProfileOf(data, KeysOf(data)[i], engine)] :
            engine \in SUBSET {s \in CellStrings(data) : EngineDefined(s)}}

DateText == Str(<< "2", "0", "2", "4", "-", "0", "1", "-", "0", "5" >>)
YearText == Str(<< "2", "0", "2", "4" >>)
LooseText == Str(<< "E", "a", "s", "t", "-", "1" >>)
NoneText == Str(<< "n", "/", "a" >>)

\* The rows a profiled sheet of the model is made of: numbers followed by
\* numeric and other text, booleans, dates in the date format, a year, a
\* text only some engines parse as a date, empty cells, and a row with
\* another set of keys.
ProfileRowPool ==
    { Row(East, Num(10), Bool(TRUE), DateText),
      Row(West, Num(5), Bool(FALSE), YearText),
      Row(East, Num(7), Bool(TRUE), Null),
      Row(Null, NoneText, Null, DateText),
      Row(DateText, Null, Null, East),
      Row(YearText, Str(<< "1", "2" >>), Num(1), West),
      Row(LooseText, Num(10), Null, Null),
      Put(Put(Put(EmptyObject, kRegion, West), kAmt, Num(5)), kNote, East) }

NotProfiled == [called |-> FALSE, profiles |-> << >>]

InitProfile ==
    /\ rawData \in SeqsUpTo(ProfileRowPool, MaxProfileRows)
    /\ columns = NotProfiled
    /\ aggArgs = << >>
    /\ aggOut = NotCalled
    /\ config = << >>
    /\ pivotData = << >>
    /\ forecastData = << >>
    /\ processedData = << >>
    /\ chart = << >>
    /\ app = << >>
    /\ chat = << >>
    /\ call = << >>

\* const columns = profileColumns(jsonData)
Profile ==
    /\ ~columns.called
    /\ \E out \in profileColumns(rawData) :
           columns' = [called |-> TRUE, profiles |-> out]
    /\ UNCHANGED <<rawData, aggArgs, aggOut, config, pivotData, forecastData,
                   processedData,
                   chart, app, chat, call>>

NextProfile == Profile

SpecProfile == InitProfile /\ [][NextProfile]_vars

---------------------------------------------------------------------------
(* Properties of profileColumns, stated over the rows of the sheet *)

Profiled == columns.called

NProfiles == Len(columns.profiles)

\* The rows in which column k has a value.
RowsWith(k) == {j \in 1..Len(rawData) : Present(Get(rawData[j], k))}

\* The first value of column k, or undefined when it has none.
FirstPresent(k) ==
    IF RowsWith(k) = {} THEN Undefined
    ELSE Get(rawData[CHOOSE j \in RowsWith(k) : \A o \in RowsWith(k) : j <= o], k)

\* C16: for a non-empty sheet the profiles are, in order, those of the
\* keys of the first row; a key of a later row only has none.
ClaimOnePerKey ==
    (Profiled /\ rawData # << >>) =>
        [i \in 1..NProfiles |-> columns.profiles[i].name] = ObjectKeys(rawData[1])

\* A first row with the keys region, amt, note followed by a row with the
\* keys region, amt, count, seg.
ClaimOnePerKeyWitness ==
    /\ Profiled
    /\ Len(rawData) = 2
    /\ DOMAIN rawData[1] = {kRegion, kAmt, kNote}
    /\ DOMAIN rawData[2] = {kRegion, kAmt, kCount, kSeg}
    /\ NProfiles = 3

\* C17: a profile of type number has a min and a max (values of type
\* number, NaN included), and a profile of any other type has neither.
ClaimMinMaxIffNumber ==
    Profiled =>
        \A i \in 1..NProfiles :
            LET c == columns.profiles[i]
            IN  IF c.type = "number"
                THEN c.min.t \in {"num", "nan"} /\ c.max.t \in {"num", "nan"}
                ELSE c.min = Undefined /\ c.max = Undefined

\* A sheet with a text column and a number column, both with values.
ClaimMinMaxIffNumberWitness ==
    /\ Profiled
    /\ NProfiles = 4
    /\ columns.profiles[1].type = "string"
    /\ columns.profiles[1].distinctCount = 2
    /\ columns.profiles[1].min = Undefined
    /\ columns.profiles[2].type = "number"
    /\ columns.profiles[2].min = Num(5)
    /\ columns.profiles[2].max = Num(10)

\* C18: distinctCount is the number of distinct present values of the
\* column over all the rows; it is 0 when the column has no value.
ClaimDistinctCount ==
    Profiled =>
        \A i \in 1..NProfiles :
            LET c == columns.profiles[i]
            IN  c.distinctCount
                    = Cardinality({Get(rawData[j], c.name) : j \in RowsWith(c.name)})

\* A column with three values, two of them equal.
ClaimDistinctCountWitness ==
    /\ Profiled
    /\ NProfiles = 4
    /\ Cardinality(RowsWith(kRegion)) = 3
    /\ columns.profiles[1].distinctCount = 2

\* The engines the sheet can tell apart.
Engines == SUBSET {s \in CellStrings(rawData) : EngineDefined(s)}

\* The type of a column whose first value is v, as stated: a string that
\* parses as a date is a date.
StatedType(v, engine) ==
    IF v.t = "bool" THEN "boolean"
    ELSE IF v.t = "num" THEN "number"
    ELSE IF v.t = "str" /\ DateParses(v.s, engine) THEN "date"
    ELSE "string"

\* The same with the date narrowed to the strings longer than 5 characters
\* that hold a "-" or a "/".
NarrowedType(v, engine) ==
    IF v.t = "bool" THEN "boolean"
    ELSE IF v.t = "num" THEN "number"
    ELSE IF /\ v.t = "str" /\ DateParses(v.s, engine) /\ Len(v.s) > 5
            /\ (Includes(v.s, "-") \/ Includes(v.s, "/"))
         THEN "date"
    ELSE "string"

\* A column without values has type string, distinctCount 0, no min and
\* no max.
EmptyColumnsAreStrings ==
    \A i \in 1..NProfiles :
        LET c == columns.profiles[i]
        IN  RowsWith(c.name) = {} =>
                /\ c.type = "string"
                /\ c.distinctCount = 0
                /\ c.min = Undefined
                /\ c.max = Undefined

\* C19 as stated: the type of a column is a function of its first present
\* value only: boolean for a boolean, number for a number, date for a
\* string that parses as a date, string otherwise; a column without values
\* has type string, distinctCount 0 and no min/max.
ClaimTypeFromFirst ==
    Profiled =>
        /\ \E engine \in Engines :
               \A i \in 1..NProfiles :
                   columns.profiles[i].type
                       = StatedType(FirstPresent(columns.profiles[i].name), engine)
        /\ EmptyColumnsAreStrings

\* C19, amended: the same, a string being a date only if it parses as a
\* date, is longer than 5 characters and holds a "-" or a "/".
ClaimTypeFromFirstNarrowed ==
    Profiled =>
        /\ \E engine \in Engines :
               \A i \in 1..NProfiles :
                   columns.profiles[i].type
                       = NarrowedType(FirstPresent(columns.profiles[i].name), engine)
        /\ EmptyColumnsAreStrings

\* A column whose first cell is empty, whose first value is a date text and
\* whose later value is plain text, and a column without values.
ClaimTypeFromFirstWitness ==
    /\ Profiled
    /\ Len(rawData) = 3
    /\ NProfiles = 4
    /\ [j \in 1..3 |-> Get(rawData[j], kSeg)] = << Null, DateText, East >>
    /\ columns.profiles[4].type = "date"
    /\ RowsWith(kCount) = {}
    /\ columns.profiles[3].type = "string"

\* C20: in a profile of type number, min and max are numbers among the
\* coerced values of the column, and every value of the column, coerced,
\* lies between them.
ClaimMinMax ==
    Profiled =>
        \A i \in 1..NProfiles :
            LET c == columns.profiles[i]
                nums == {ToNumber(Get(rawData[j], c.name)) : j \in RowsWith(c.name)}
            IN  c.type = "number" =>
                    /\ c.min \in nums /\ c.min.t = "num"
                    /\ c.max \in nums /\ c.max.t = "num"
                    /\ \A v \in nums :
                           /\ v.t = "num"
                           /\ ~NumLess(v, c.min)
                           /\ ~NumLess(c.max, v)

---------------------------------------------------------------------------
(* The three computations over one sheet, the empty sheet included *)

MaxEngineRows == 1

EngineRowPool ==
    { Row(East, Num(10), Num(2), SegA),
      Row(West, Num(5), Num(3), SegB),
      Row(Null, Num(4), Num(1), SegA) }

\* Pivot configurations: a row-label key, a column-label key or none.
EngineConfigs ==
    [rowLabel : {kRegion, kSeg}, colLabel : {<< >>, kSeg},
     valueField : {kAmt}, aggregation : {"sum"}]

NotPivoted == [computed |-> FALSE, value |-> << >>]

InitEngine ==
    /\ rawData \in SeqsUpTo(EngineRowPool, MaxEngineRows)
    /\ aggArgs \in AggArgs
    /\ config \in EngineConfigs
    /\ aggOut = NotCalled
    /\ columns = NotProfiled
    /\ pivotData = NotPivoted
    /\ forecastData = << >>
    /\ processedData = << >>
    /\ chart = << >>
    /\ app = << >>
    /\ chat = << >>
    /\ call = << >>

\* The useMemo of PivotTableBuilder over the sheet, under config.
Pivot ==
    /\ ~pivotData.computed
    /\ pivotData' = [computed |-> TRUE, value |-> PivotOf(rawData, config)]
    /\ UNCHANGED <<rawData, aggArgs, aggOut, config, forecastData,
                   processedData, columns,
                   chart, app, chat, call>>

NextEngine == Profile \/ Aggregate \/ Pivot

SpecEngine == InitEngine /\ [][NextEngine]_vars

\* C21: over a sheet without rows the profiler returns no profile,
\* aggregateData returns no point and does not throw, and the pivot has no
\* row label, no column label and no cell.
ClaimEmptyIn ==
    rawData = << >> =>
        /\ columns.called => columns.profiles = << >>
        /\ aggOut.called => ~aggOut.threw /\ aggOut.points = << >>
        /\ pivotData.computed =>
               /\ pivotData.value.sortedRows = << >>
               /\ pivotData.value.sortedCols = << >>
               /\ DOMAIN pivotData.value.valueMap = {}

\* The three computations have run over the empty sheet.
ClaimEmptyInWitness ==
    /\ rawData = << >>
    /\ columns.called
    /\ aggOut.called
    /\ pivotData.computed

---------------------------------------------------------------------------
(* generateChartForecast *)

MaxSeries == 31

\* data.slice(-30) keeps at most this many points.
RecentLimit == 30

\* data.slice(-n): the last n elements, all of them when there are fewer
Slice(data, n) ==
    IF Len(data) > n THEN SubSeq(data, Len(data) - n + 1, Len(data)) ELSE data

\* const recentData = data.slice(-30)
RecentData(data) == Slice(data, RecentLimit)

Quote(s) == << "\"" >> \o s \o << "\"" >>

RECURSIVE JoinWith(_, _)
JoinWith(parts, sep) ==
    IF parts = << >> THEN << >>
    ELSE IF Len(parts) = 1 THEN parts[1]
    ELSE parts[1] \o sep \o JoinWith(Tail(parts), sep)

\* The JSON text of null, an integral number or a string without escapes.
StringifyValue(v) ==
    CASE v.t = "null" -> << "n", "u", "l", "l" >>
      [] v.t = "num" -> NumberToString(v)
      [] v.t = "str" -> Quote(v.s)

\* The JSON text of an object whose members are written in the order keys.
StringifyPoint(obj, keys) ==
    << "{" >>
        \o JoinWith([i \in 1..Len(keys) |->
                        Quote(keys[i]) \o << ":" >> \o StringifyValue(obj[keys[i]])],
                    << "," >>)
        \o << "}" >>

\* The JSON text of an array of such objects, or of a scalar.
JSONstringify(v, keys) ==
    IF v.t = "arr"
    THEN << "[" >>
             \o JoinWith([i \in 1..Len(v.a) |-> StringifyPoint(v.a[i], keys)],
                         << "," >>)
             \o << "]" >>
    ELSE StringifyValue(v)

\* The values the model of the remote service can answer with, asked for
\* the keys xAxisKey and yAxisKey: null, and arrays of up to two points
\* carrying both keys.
JsonValues(xAxisKey, yAxisKey) ==
    LET next == Put(Put(EmptyObject, xAxisKey, Str(<< "N", "e", "x", "t" >>)),
                    yAxisKey, Num(12))
        then == Put(Put(EmptyObject, xAxisKey, Str(<< "T", "h", "e", "n" >>)),
                    yAxisKey, Num(0))
    IN  {Null, Arr(<< >>), Arr(<< next >>), Arr(<< next, then >>)}

\* JSON.parse(text): the value whose JSON text is `text`, a SyntaxError
\* when `text` is the JSON text of no value.
JSONparse(text, xAxisKey, yAxisKey) ==
    LET keys == << xAxisKey, yAxisKey >>
        denoted == {v \in JsonValues(xAxisKey, yAxisKey) :
                       JSONstringify(v, keys) = text}
    IN  IF denoted = {} THEN [threw |-> TRUE, value |-> Undefined]
        ELSE [threw |-> FALSE, value |-> CHOOSE v \in denoted : TRUE]

\* What awaiting ai.models.generateContent can bring: a rejection, or a
\* response whose text is undefined, empty, not JSON, or the JSON text of
\* a value.
Rejected == [kind |-> "rejected", text |-> Undefined]
Response(text) == [kind |-> "response", text |-> text]

Outcomes(xAxisKey, yAxisKey) ==
    {Rejected, Response(Undefined), Response(Str(<< >>)),
     Response(Str(<< "[", "{" >>))}
        \cup {Response(Str(JSONstringify(v, << xAxisKey, yAxisKey >>))) :
                 v \in JsonValues(xAxisKey, yAxisKey)}

\* The try block after the await, given what the remote call brought: the
\* rejection is thrown on, a falsy text returns [], and JSON.parse returns
\* a value or throws.
TryBlock(outcome, xAxisKey, yAxisKey) ==
    IF outcome.kind = "rejected" THEN [threw |-> TRUE, value |-> Undefined]
    ELSE IF ~Truthy(outcome.text) THEN [threw |-> FALSE, value |-> Arr(<< >>)]
    ELSE JSONparse(outcome.text.s, xAxisKey, yAxisKey)

\* A faulty function: no catch block, the exception rejects the promise.
ResolvedWithoutCatch(outcome, xAxisKey, yAxisKey) ==
    LET body == TryBlock(outcome, xAxisKey, yAxisKey)
    IN  IF body.threw THEN [settled |-> "rejected", value |-> Undefined]
        ELSE [settled |-> "fulfilled", value |-> body.value]

\* How the promise of generateChartForecast settles: catch (error)
\* { return []; } turns every exception of the try block into [].
Resolved(outcome, xAxisKey, yAxisKey) ==
    LET body == TryBlock(outcome, xAxisKey, yAxisKey)
    IN  IF body.threw THEN [settled |-> "fulfilled", value |-> Arr(<< >>)]
        ELSE [settled |-> "fulfilled", value |-> body.value]

\* The series handed to the service: n points numbered in order.
Series(n) == [i \in 1..n |-> Put(EmptyObject, kCount, Num(i))]

NotInvoked ==
    [pc |-> "idle", sent |-> << >>, outcome |-> Rejected,
     settled |-> "pending", value |-> Undefined]

InitService ==
    /\ aggOut \in {[threw |-> FALSE, keys |-> << >>, points |-> Series(n),
                    called |-> TRUE] : n \in 0..MaxSeries}
    /\ aggArgs \in [xKey : XKeys, yKey : YKeys, type : {"sum"}, groupKey : {<< >>}]
    /\ call = NotInvoked
    /\ rawData = << >>
    /\ config = << >>
    /\ pivotData = << >>
    /\ forecastData = << >>
    /\ processedData = << >>
    /\ columns = << >>
    /\ chart = << >>
    /\ app = << >>
    /\ chat = << >>

\* generateChartForecast(data, xAxisKey, yAxisKey) up to its await: the
\* prompt carries recentData.
Invoke ==
    /\ call.pc = "idle"
    /\ call' = [call EXCEPT !.pc = "awaiting",
                            !.sent = RecentData(aggOut.points)]
    /\ UNCHANGED <<rawData, aggArgs, aggOut, config, pivotData, forecastData,
                   processedData, columns, chart, app, chat>>

\* The remote call settles and generateChartForecast runs to its end.
Settle(outcome) ==
    /\ call.pc = "awaiting"
    /\ LET r == Resolved(outcome, aggArgs.xKey, aggArgs.yKey)
       IN  call' = [call EXCEPT !.pc = "done",
                                !.outcome = outcome,
                                !.settled = r.settled,
                                !.value = r.value]
    /\ UNCHANGED <<rawData, aggArgs, aggOut, config, pivotData, forecastData,
                   processedData, columns, chart, app, chat>>

NextService ==
    \/ Invoke
    \/ \E outcome \in Outcomes(aggArgs.xKey, aggArgs.yKey) : Settle(outcome)

SpecService == InitService /\ [][NextService]_vars

\* The remote call failed, or answered without text, with an empty text or
\* with a text that is not JSON.
Failed(outcome) ==
    \/ outcome.kind = "rejected"
    \/ ~Truthy(outcome.text)
    \/ JSONparse(outcome.text.s, aggArgs.xKey, aggArgs.yKey).threw

\* C23: generateChartForecast never rejects the promise it returned; it
\* resolves with the empty array when the remote call fails, answers
\* without text or answers with text that does not parse; and the prompt
\* carries the last 30 points of the series, all of them when there are
\* fewer.
ClaimNeverFails ==
    /\ call.settled # "rejected"
    /\ call.pc = "done" /\ Failed(call.outcome) => call.value = Arr(<< >>)
    /\ call.pc # "idle" =>
           /\ Len(call.sent) <= 30
           /\ Len(call.sent) = IF NPoints < 30 THEN NPoints ELSE 30
           /\ \A i \in 1..Len(call.sent) :
                  call.sent[i] = aggOut.points[NPoints - Len(call.sent) + i]

\* A series of more than 30 points was handed over and the answer did not
\* parse.
ClaimNeverFailsWitness ==
    /\ NPoints > 30
    /\ call.pc = "done"
    /\ call.outcome.kind = "response"
    /\ Truthy(call.outcome.text)
    /\ JSONparse(call.outcome.text.s, aggArgs.xKey, aggArgs.yKey).threw
    /\ call.value = Arr(<< >>)

---------------------------------------------------------------------------
(* InteractiveChart: the objects the splice reads and writes *)

\* The objects are held in a memory, a sequence indexed by reference: an
\* array of objects is a sequence of references.

\* A faulty copy: the object itself.
SpreadNothing(mem, ref) == [mem |-> mem, ref |-> ref]

\* { ...mem[ref] }: a new object with the own properties of the object at
\* ref.
Spread(mem, ref) == [mem |-> Append(mem, mem[ref]), ref |-> Len(mem) + 1]

\* mem[ref][k] = v
Assign(mem, ref, k, v) == [mem EXCEPT ![ref] = Put(@, k, v)]

\* baseData.map(item => ({ ...item, [forecastKey]: null })) over the
\* references `items`: the memory after it and the references of the new
\* array.
RECURSIVE MapHistorical(_, _, _)
MapHistorical(mem, items, yKey) ==
    IF items = << >> THEN [mem |-> mem, refs |-> << >>]
    ELSE LET copy == Spread(mem, Head(items))
             rest == MapHistorical(
                         Assign(copy.mem, copy.ref, ForecastKey(yKey), Null),
                         Tail(items), yKey)
         IN  [mem |-> rest.mem, refs |-> << copy.ref >> \o rest.refs]

\* if (combined.length > 0) combined[combined.length - 1][forecastKey] =
\*     combined[combined.length - 1][yKey]
AssignJunction(mem, combined, yKey) ==
    IF Len(combined) > 0
    THEN Assign(mem, combined[Len(combined)], ForecastKey(yKey),
                Get(mem[combined[Len(combined)]], yKey))
    ELSE mem

\* forecastData.forEach(item => combined.push({ ...item, [yKey]: null,
\*     [forecastKey]: item[yKey], _isForecast: true }))
RECURSIVE PushForecast(_, _, _)
PushForecast(mem, items, yKey) ==
    IF items = << >> THEN [mem |-> mem, refs |-> << >>]
    ELSE LET copy == Spread(mem, Head(items))
             predicted == Get(mem[Head(items)], yKey)
             rest == PushForecast(
                         Assign(Assign(Assign(copy.mem, copy.ref, yKey, Null),
                                       copy.ref, ForecastKey(yKey), predicted),
                                copy.ref, kIsForecast, Bool(TRUE)),
                         Tail(items), yKey)
         IN  [mem |-> rest.mem, refs |-> << copy.ref >> \o rest.refs]

\* The body of the useMemo after aggregateData has returned baseData: the
\* returned series, and baseData and forecastData as they are afterwards.
SpliceInMemory(baseData, forecast, yKey) ==
    LET n == Len(baseData)
        m == Len(forecast)
        mem0 == baseData \o forecast
        mapped == MapHistorical(mem0, [i \in 1..n |-> i], yKey)
        joined == AssignJunction(mapped.mem, mapped.refs, yKey)
        pushed == PushForecast(joined, [i \in 1..m |-> n + i], yKey)
        combined == mapped.refs \o pushed.refs
        mem == IF m > 0 THEN pushed.mem ELSE mem0
        returned == IF m > 0 THEN combined ELSE [i \in 1..n |-> i]
    IN  [points |-> [i \in 1..Len(returned) |-> mem[returned[i]]],
         baseData |-> SubSeq(mem, 1, n),
         forecastData |-> SubSeq(mem, n + 1, n + m)]

---------------------------------------------------------------------------
(* InteractiveChart: selectors and forecast request *)

MaxChartRows == 1

\* The rows a charted sheet is made of; the third makes aggregateData throw
\* when region is the x-axis.
ChartRowPool ==
    { Row(East, Num(10), Num(2), SegA),
      Row(West, Num(5), Num(3), SegB),
      Row(Str(<< "c", "o", "n", "s", "t", "r", "u", "c", "t", "o", "r" >>),
          Num(1), Num(1), SegA) }

\* The chart types of the four buttons.
ChartTypes == {"bar", "line", "area", "pie"}

\* The reducers the selector of the model offers.
ChartAggregations == {"sum", "count"}

ChartArgs ==
    [xKey : XKeys, yKey : YKeys, type : ChartAggregations, groupKey : GroupKeys]

ChartSheets == SeqsUpTo(ChartRowPool, MaxChartRows)

\* aggregateData(sheet.rawData, xAxis, yKey, aggregation, groupBy ||
\* undefined), tabulated over the sheets and selector settings of a chart.
Aggregated ==
    [rows \in ChartSheets, args \in ChartArgs |->
        aggregateData(rows, args.xKey, args.yKey, args.type, args.groupKey)]

\* One render: what the useMemo computes from the sheet, the selectors and
\* forecastData; an exception of aggregateData takes the chart down.
ChartRender(rows, args, forecast) ==
    { LET spliced == SpliceInMemory(out.points, forecast, args.yKey)
      IN  [agg |-> [threw |-> out.threw, keys |-> out.keys,
                    points |-> out.points, called |-> TRUE],
           processed |->
               IF out.threw
               THEN [status |-> "threw", points |-> << >>, base |-> << >>]
               ELSE [status |-> "ok", points |-> spliced.points,
                     base |-> spliced.baseData],
           forecast |-> IF out.threw THEN forecast ELSE spliced.forecastData]
      : out \in Aggregated[rows, args] }

\* The chart is on screen: no render has thrown.
Mounted == processedData.status = "ok"

NoAnswer == [settled |-> "pending", value |-> Undefined]

InitChart ==
    /\ rawData \in ChartSheets
    /\ aggArgs \in ChartArgs
    /\ \E r \in ChartRender(rawData, aggArgs, << >>) :
           /\ aggOut = r.agg
           /\ processedData = r.processed
           /\ forecastData = r.forecast
    /\ chart \in [chartType : ChartTypes, isForecasting : {FALSE},
                  pending : {<< >>}, answer : {NoAnswer},
                  forecastFrom : {<< >>}]
    /\ config = << >>
    /\ pivotData = << >>
    /\ columns = << >>
    /\ app = << >>
    /\ chat = << >>
    /\ call = << >>

\* onClick={() => setChartType(t)}
SetChartType(t) ==
    /\ t # chart.chartType
    /\ chart' = [chart EXCEPT !.chartType = t]
    /\ UNCHANGED aggArgs

\* onChange={e => setXAxis(e.target.value)}
SetXAxis(x) ==
    /\ x # aggArgs.xKey
    /\ aggArgs' = [aggArgs EXCEPT !.xKey = x]
    /\ UNCHANGED chart

\* onChange={e => setYKey(e.target.value)}
SetYKey(y) ==
    /\ y # aggArgs.yKey
    /\ aggArgs' = [aggArgs EXCEPT !.yKey = y]
    /\ UNCHANGED chart

\* onChange={e => setAggregation(e.target.value as AggregationType)}
SetChartAggregation(a) ==
    /\ a # aggArgs.type
    /\ aggArgs' = [aggArgs EXCEPT !.type = a]
    /\ UNCHANGED chart

\* onChange={e => setGroupBy(e.target.value)}
SetGroupBy(g) ==
    /\ g # aggArgs.groupKey
    /\ aggArgs' = [aggArgs EXCEPT !.groupKey = g]
    /\ UNCHANGED chart

\* The forecast button is rendered for line and area charts.
ButtonRendered == chart.chartType \in {"line", "area"}

\* A faulty button: a forecast that has been applied does not disable it.
ButtonDisabledWhilePending ==
    chart.isForecasting \/ aggArgs.groupKey # << >>

\* disabled={isForecasting || forecastData.length > 0 || !!groupBy}
ButtonDisabled ==
    chart.isForecasting \/ Len(forecastData) > 0 \/ aggArgs.groupKey # << >>

\* handleForecast up to its await: the guard, setIsForecasting(true), the
\* aggregation and the call of generateChartForecast, whose arguments the
\* request keeps.  aggregateData is called with the arguments of the
\* render that put the button on screen, and returns as it did there.
HandleForecast ==
    /\ ButtonRendered
    /\ ~ButtonDisabled
    /\ ~chart.isForecasting
    /\ chart' = [chart EXCEPT !.isForecasting = TRUE,
                              !.pending = Append(@, aggArgs)]
    /\ UNCHANGED aggArgs

\* predictedPoints?.length
HasLength(predictedPoints) ==
    predictedPoints.t = "arr" /\ Len(predictedPoints.a) > 0

\* seq without its i-th element
RemoveAt(seq, i) == SubSeq(seq, 1, i - 1) \o SubSeq(seq, i + 1, Len(seq))

\* A faulty continuation: isForecasting is reset only after
\* setForecastData.
ForecastSettlesWithoutFinally(i, outcome) ==
    /\ i \in 1..Len(chart.pending)
    /\ LET request == chart.pending[i]
           answer == Resolved(outcome, request.xKey, request.yKey)
           applied == answer.settled = "fulfilled" /\ HasLength(answer.value)
       IN  chart' = [chart EXCEPT
                        !.isForecasting = ~applied,
                        !.pending = RemoveAt(@, i),
                        !.answer = answer,
                        !.forecastFrom = IF applied THEN request ELSE @]
    /\ UNCHANGED aggArgs

\* The i-th pending request settles and handleForecast runs to its end:
\* setForecastData when the answer has a length, setIsForecasting(false)
\* in the finally block.
ForecastSettles(i, outcome) ==
    /\ i \in 1..Len(chart.pending)
    /\ LET request == chart.pending[i]
           answer == Resolved(outcome, request.xKey, request.yKey)
           applied == answer.settled = "fulfilled" /\ HasLength(answer.value)
       IN  chart' = [chart EXCEPT
                        !.isForecasting = FALSE,
                        !.pending = RemoveAt(@, i),
                        !.answer = answer,
                        !.forecastFrom = IF applied THEN request ELSE @]
    /\ UNCHANGED aggArgs

\* The value of forecastData after the handler: the answer of the request
\* that has just settled when setForecastData was called, else unchanged.
SetForecastData ==
    IF /\ Len(chart'.pending) < Len(chart.pending)
       /\ chart'.answer.settled = "fulfilled"
       /\ HasLength(chart'.answer.value)
    THEN chart'.answer.value.a
    ELSE forecastData

\* The render after the handler: the useMemo recomputes processedData when
\* one of its dependencies has changed.
RenderChart ==
    IF aggArgs' # aggArgs \/ SetForecastData # forecastData
    THEN \E r \in ChartRender(rawData, aggArgs', SetForecastData) :
             /\ aggOut' = r.agg
             /\ processedData' = r.processed
             /\ forecastData' = r.forecast
    ELSE UNCHANGED <<aggOut, forecastData, processedData>>

\* One event of a chart on screen: its handler, then the render.
NextChart ==
    /\ Mounted
    /\ \/ \E t \in ChartTypes : SetChartType(t)
       \/ \E x \in XKeys : SetXAxis(x)
       \/ \E y \in YKeys : SetYKey(y)
       \/ \E a \in ChartAggregations : SetChartAggregation(a)
       \/ \E g \in GroupKeys : SetGroupBy(g)
       \/ HandleForecast
       \/ \E i \in 1..Len(chart.pending) :
              \E outcome \in Outcomes(chart.pending[i].xKey,
                                      chart.pending[i].yKey) :
                  ForecastSettles(i, outcome)
    /\ RenderChart
    /\ UNCHANGED <<rawData, config, pivotData, columns, app, chat, call>>

SpecChart == InitChart /\ [][NextChart]_vars

\* The step in which a pending request settles.
Settling == Len(chart'.pending) < Len(chart.pending)

\* The remote call settles sooner or later, and the continuation of
\* handleForecast then runs: the handler of a settling request is taken
\* when it stays possible.
FairChart ==
    WF_chart(/\ Mounted
             /\ \E i \in 1..Len(chart.pending) :
                    \E outcome \in Outcomes(chart.pending[i].xKey,
                                            chart.pending[i].yKey) :
                        ForecastSettles(i, outcome))

SpecChartFair == SpecChart /\ FairChart

NoForecastFields ==
    \A i \in 1..Len(processedData.points) :
        \A y \in YKeys : ForecastKey(y) \notin DOMAIN processedData.points[i]

\* C24: when a request settles with the empty array (the remote call
\* failed or answered nothing) or with a value without length, the chart
\* is as it was: forecastData is still empty, the displayed series is the
\* one aggregateData returned, without forecast fields, and isForecasting
\* is false with the button enabled as before the request; and, as long
\* as no render has thrown, isForecasting returns to false after every
\* request, failed or successful.
ClaimFailedForecast ==
    /\ [][Settling /\ ~HasLength(chart'.answer.value) =>
              /\ forecastData = << >> /\ forecastData' = << >>
              /\ processedData' = processedData
              /\ processedData'.points = aggOut'.points
              /\ NoForecastFields'
              /\ ~chart'.isForecasting
              /\ chart'.pending = << >>]_vars
    /\ (chart.isForecasting ~> (~chart.isForecasting \/ ~Mounted))

\* A request over a non-empty series has settled with the empty array.
ClaimFailedForecastWitness ==
    /\ Mounted
    /\ NPoints > 0
    /\ chart.answer.settled = "fulfilled"
    /\ chart.answer.value = Arr(<< >>)
    /\ ~chart.isForecasting
    /\ forecastData = << >>

\* The points of the displayed series that come from the forecast.
ForecastOrigin ==
    {i \in 1..Len(processedData.points) :
        Get(processedData.points[i], kIsForecast) = Bool(TRUE)}

\* C25: whenever forecast points are displayed, they were requested for
\* the x-axis, metric, reducer and stack-by key now selected, and each of
\* them has a number in the forecast field of the metric now selected.
ClaimForecastCurrent ==
    Mounted /\ ForecastOrigin # {} =>
        /\ chart.forecastFrom = aggArgs
        /\ \A i \in ForecastOrigin :
               Get(processedData.points[i], ForecastKey(aggArgs.yKey)).t = "num"

\* C26: a chart has at most one forecast request pending; a request is
\* started only while isForecasting is false, forecastData is empty and no
\* stack-by key is selected; and a forecast that has been applied is never
\* replaced or cleared.
ClaimOneRequest ==
    /\ [](Len(chart.pending) <= 1)
    /\ [][Len(chart'.pending) > Len(chart.pending) =>
              /\ ~chart.isForecasting
              /\ forecastData = << >>
              /\ aggArgs.groupKey = << >>]_vars
    /\ [][forecastData # << >> => forecastData' = forecastData]_vars

\* A forecast has been applied and is what keeps the button disabled, on a
\* chart whose selectors have been changed since.
ClaimOneRequestWitness ==
    /\ Mounted
    /\ ButtonRendered
    /\ forecastData # << >>
    /\ ~chart.isForecasting
    /\ chart.pending = << >>
    /\ aggArgs.groupKey = << >>
    /\ chart.forecastFrom.type # aggArgs.type
    /\ ButtonDisabled

---------------------------------------------------------------------------
(* App: upload, parse, analysis, reset *)

MaxSheets == 2
MaxSheetRows == 1

\* The rows the sheets of an uploaded workbook are made of.
AppRowPool ==
    { Row(East, Num(10), Num(2), SegA), Row(West, Num(5), Num(3), SegB) }

\* What the user can pick: a file the reader cannot read, a file XLSX.read
\* rejects, or a workbook of sheets, some of them possibly empty.
Files ==
    [name : {"a.xlsx", "b.csv"},
     kind : {"unreadable", "corrupt", "workbook"},
     sheets : SeqsUpTo(SeqsUpTo(AppRowPool, MaxSheetRows), MaxSheets)]

kNoData == "No data found in the file."
kCorrupt == "Unsupported file"
kUnexpected == "An unexpected error occurred processing the file."
kNoInsights == "Failed to generate insights. Please try again."

\* The indices of the sheets that are not skipped: jsonData.length > 0
NonEmptySheets(file) ==
    SelectSeq([i \in 1..Len(file.sheets) |-> i],
              LAMBDA i : Len(file.sheets[i]) > 0)

\* totalRows += jsonData.length, over the sheets that are kept
RECURSIVE CountRows(_)
CountRows(sheets) ==
    IF sheets = << >> THEN 0 ELSE Len(Head(sheets)) + CountRows(Tail(sheets))

\* How the promise of parseFile(file) can settle: rejected by
\* reader.onerror with an event that has no message, rejected with the
\* exception of XLSX.read or with "No data found in the file.", or
\* resolved with the dataset of the sheets that have rows.
parseFile(file) ==
    LET kept == NonEmptySheets(file)
        profiles == [i \in 1..Len(kept) |-> profileColumns(file.sheets[kept[i]])]
    IN  IF file.kind = "unreadable"
        THEN {[rejected |-> TRUE, message |-> "", dataset |-> Null]}
        ELSE IF file.kind = "corrupt"
        THEN {[rejected |-> TRUE, message |-> kCorrupt, dataset |-> Null]}
        ELSE IF Len(kept) = 0
        THEN {[rejected |-> TRUE, message |-> kNoData, dataset |-> Null]}
        ELSE {[rejected |-> FALSE, message |-> "",
               dataset |->
                   [fileName |-> file.name,
                    sheets |-> [i \in 1..Len(kept) |->
                                   [sheetName |-> kept[i],
                                    rawData |-> file.sheets[kept[i]],
                                    columns |-> columnsOf[i],
                                    rowCount |-> Len(file.sheets[kept[i]])]],
                    totalRows |-> CountRows([i \in 1..Len(kept) |->
                                                file.sheets[kept[i]]])]] :
                columnsOf \in {f \in [1..Len(kept) -> UNION {profiles[i] : i \in 1..Len(kept)}] :
                                  \A i \in 1..Len(kept) : f[i] \in profiles[i]}}

\* What awaiting the remote analysis can bring: a rejection, no text, text
\* that is not JSON, or the JSON text of an analysis with or without
\* charts.
AnalysisOutcomes == {"rejected", "no text", "not JSON", "insights", "charts"}

\* How the promise of analyzeDatasetWithGemini(dataset) settles: every
\* exception of the try block is replaced by the same error.
analyzeDatasetWithGemini(dataset, outcome) ==
    IF outcome \in {"rejected", "no text", "not JSON"}
    THEN [rejected |-> TRUE, message |-> kNoInsights, analysis |-> Null]
    ELSE [rejected |-> FALSE, message |-> "",
          analysis |-> [summary |-> dataset.fileName,
                        charts |-> IF outcome = "charts" THEN 1 ELSE 0]]

\* error.message || "An unexpected error occurred processing the file."
MessageOf(message) == IF message = "" THEN kUnexpected ELSE message

Idle == [status |-> "idle", message |-> ""]

InitApp ==
    /\ app = [processing |-> Idle, dataset |-> Null, analysis |-> Null,
              pc |-> "none", file |-> << >>]
    /\ rawData = << >>
    /\ aggArgs = << >>
    /\ aggOut = << >>
    /\ config = << >>
    /\ pivotData = << >>
    /\ forecastData = << >>
    /\ processedData = << >>
    /\ columns = << >>
    /\ chart = << >>
    /\ chat = << >>
    /\ call = << >>

\* if (dataset && analysis && processing.status === 'complete') return
\* <Dashboard ... />
DashboardShown ==
    /\ app.dataset # Null
    /\ app.analysis # Null
    /\ app.processing.status = "complete"

\* A faulty screen: the file input is there whatever the status.
InputAlwaysRendered == ~DashboardShown

\* The file input is part of the upload screen while the status is idle
\* or error.
InputRendered ==
    ~DashboardShown /\ app.processing.status \in {"idle", "error"}

Frame ==
    UNCHANGED <<rawData, aggArgs, aggOut, config, pivotData, forecastData,
                processedData, columns, chart, chat, call>>

\* handleFileUpload up to its first await, the user having picked a file.
HandleFileUpload(file) ==
    /\ InputRendered
    /\ app' = [processing |-> [status |-> "parsing",
                               message |-> "Reading workbook structure..."],
               dataset |-> Null, analysis |-> Null,
               pc |-> "reading", file |-> file]
    /\ Frame

\* The catch block of handleFileUpload.
Caught(message) ==
    [app EXCEPT !.processing = [status |-> "error", message |-> MessageOf(message)],
                !.pc = "none"]

\* parseFile settles: setDataset(data), or the catch block.
ParseSettles ==
    /\ app.pc = "reading"
    /\ \E out \in parseFile(app.file) :
           app' = IF out.rejected THEN Caught(out.message)
                  ELSE [app EXCEPT !.dataset = out.dataset, !.pc = "parsed"]
    /\ Frame

\* setProcessing({ status: 'analyzing', ... }) and the call of
\* analyzeDatasetWithGemini(data).
StartAnalysis ==
    /\ app.pc = "parsed"
    /\ app' = [app EXCEPT
                  !.processing =
                      [status |-> "analyzing",
                       message |-> "Gemini is identifying cross-sheet patterns & generating insights..."],
                  !.pc = "analyzing"]
    /\ Frame

\* analyzeDatasetWithGemini settles: setAnalysis(analysisResult), or the
\* catch block.
AnalysisSettles(outcome) ==
    /\ app.pc = "analyzing"
    /\ LET out == analyzeDatasetWithGemini(app.dataset, outcome)
       IN  app' = IF out.rejected THEN Caught(out.message)
                  ELSE [app EXCEPT !.analysis = out.analysis, !.pc = "analyzed"]
    /\ Frame

\* setProcessing({ status: 'complete' })
Complete ==
    /\ app.pc = "analyzed"
    /\ app' = [app EXCEPT !.processing = [status |-> "complete", message |-> ""],
                          !.pc = "none"]
    /\ Frame

\* handleReset, the onReset of the Dashboard
HandleReset ==
    /\ DashboardShown
    /\ app' = [app EXCEPT !.dataset = Null, !.analysis = Null, !.processing = Idle]
    /\ Frame

NextApp ==
    \/ \E file \in Files : HandleFileUpload(file)
    \/ ParseSettles
    \/ StartAnalysis
    \/ \E outcome \in AnalysisOutcomes : AnalysisSettles(outcome)
    \/ Complete
    \/ HandleReset

SpecApp == InitApp /\ [][NextApp]_vars

\* The changes of status.
Moves ==
    { <<"idle", "parsing">>, <<"error", "parsing">>,
      <<"parsing", "analyzing">>, <<"parsing", "error">>,
      <<"analyzing", "complete">>, <<"analyzing", "error">> }

---------------------------------------------------------------------------
(* Dashboard: the chat *)

MaxQuestions == 2
MaxTokens == 2

\* 'overview' and the names of the sheets of the dataset.
Tabs == {"overview", "Sales"}

\* What the user can type into the input.
Typed == { << >>, << " " >>, << "h", "i" >>, << " ", "h", "i", " " >> }

\* The tokens a stream can yield.
Tokens == { << "o", "k" >>, << "." >> }

\* String.prototype.trim over blanks
RECURSIVE Trim(_)
Trim(s) ==
    IF s = << >> THEN s
    ELSE IF Head(s) = " " THEN Trim(Tail(s))
    ELSE IF s[Len(s)] = " " THEN Trim(SubSeq(s, 1, Len(s) - 1))
    ELSE s

ChatMessage(id, role, content) == [id |-> id, role |-> role, content |-> content]

\* currentHistory.findIndex(m => m.id === id): 0 stands for -1
FindIndex(history, id) ==
    IF \E i \in 1..Len(history) : history[i].id = id
    THEN CHOOSE i \in 1..Len(history) :
             /\ history[i].id = id
             /\ \A j \in 1..(i - 1) : history[j].id # id
    ELSE 0

\* chatHistories is held as a function over the tabs; a tab without an
\* entry has the empty history that `|| []` stands in for.
InitChat ==
    /\ chat = [activeTab |-> "overview", question |-> << >>,
               chatHistories |-> [tab \in Tabs |-> << >>],
               isAsking |-> FALSE, streams |-> << >>, now |-> 0]
    /\ rawData = << >>
    /\ aggArgs = << >>
    /\ aggOut = << >>
    /\ config = << >>
    /\ pivotData = << >>
    /\ forecastData = << >>
    /\ processedData = << >>
    /\ columns = << >>
    /\ chart = << >>
    /\ app = << >>
    /\ call = << >>

ChatFrame ==
    UNCHANGED <<rawData, aggArgs, aggOut, config, pivotData, forecastData,
                processedData, columns, chart, app, call>>

\* onClick={() => setActiveTab(...)}
SetActiveTab(tab) ==
    /\ tab # chat.activeTab
    /\ chat' = [chat EXCEPT !.activeTab = tab]
    /\ ChatFrame

\* onChange={e => setQuestion(e.target.value)}
SetQuestion(text) ==
    /\ text # chat.question
    /\ chat' = [chat EXCEPT !.question = text]
    /\ ChatFrame

\* if (!question.trim() || isAsking) return;
Ignored == Trim(chat.question) = << >> \/ chat.isAsking

\* handleAskQuestion up to the first await of the loop: the guard, the two
\* messages with the ids Date.now() and Date.now() + 1, setQuestion(''),
\* setIsAsking(true) and the call of streamAskQuestion.  The clock has
\* moved on since the question before.
HandleAskQuestion ==
    /\ chat.now < 2 * MaxQuestions
    /\ chat' =
           IF Ignored THEN chat
           ELSE LET userMsg == ChatMessage(chat.now + 1, "user", chat.question)
                    tempBotId == chat.now + 2
                    initialBotMsg == ChatMessage(tempBotId, "assistant", << >>)
                IN  [chat EXCEPT
                        !.chatHistories[chat.activeTab] =
                            @ \o << userMsg, initialBotMsg >>,
                        !.question = << >>,
                        !.isAsking = TRUE,
                        !.streams = Append(@, [activeTab |-> chat.activeTab,
                                               tempBotId |-> tempBotId,
                                               yielded |-> 0]),
                        !.now = chat.now + 2]
    /\ ChatFrame

\* The tab whose history a token goes to: the tab of the render of the
\* chat that is current when the token arrives.
TabOfCurrentRender(stream) == chat.activeTab

\* The tab whose history a token goes to: activeTab as the handler that
\* accepted the question closed over it.
TabOfClosure(stream) == stream.activeTab

\* The updater of one token.
WithToken(prev, stream, token) ==
    LET tab == TabOfClosure(stream)
        currentHistory == prev[tab]
        lastMsgIndex == FindIndex(currentHistory, stream.tempBotId)
    IN  [prev EXCEPT ![tab] =
            IF lastMsgIndex # 0
            THEN [currentHistory EXCEPT ![lastMsgIndex].content = @ \o token]
            ELSE currentHistory]

\* The i-th stream yields a token.
StreamYields(i, token) ==
    /\ i \in 1..Len(chat.streams)
    /\ chat.streams[i].yielded < MaxTokens
    /\ chat' = [chat EXCEPT
                   !.chatHistories = WithToken(@, chat.streams[i], token),
                   !.streams[i].yielded = @ + 1]
    /\ ChatFrame

\* The i-th stream ends or throws: the finally block.
StreamEnds(i) ==
    /\ i \in 1..Len(chat.streams)
    /\ chat' = [chat EXCEPT !.isAsking = FALSE,
                            !.streams = RemoveAt(@, i)]
    /\ ChatFrame

NextChat ==
    \/ \E tab \in Tabs : SetActiveTab(tab)
    \/ \E text \in Typed : SetQuestion(text)
    \/ HandleAskQuestion
    \/ \E i \in 1..Len(chat.streams) : \E token \in Tokens : StreamYields(i, token)
    \/ \E i \in 1..Len(chat.streams) : StreamEnds(i)

SpecChat == InitChat /\ [][NextChat]_vars

\* The kinds of step of the chat: a question is accepted, a token arrives,
\* a stream is over.
Accepting == Len(chat'.streams) > Len(chat.streams)
Streaming ==
    /\ Len(chat'.streams) = Len(chat.streams)
    /\ chat'.streams # chat.streams
Ending == Len(chat'.streams) < Len(chat.streams)

\* The histories of the tabs other than tab are left as they are.
OtherTabsSame(tab) ==
    \A other \in Tabs \ {tab} :
        chat'.chatHistories[other] = chat.chatHistories[other]

\* C28: a submitted question that is blank, or submitted while another is
\* being answered, changes nothing; an accepted question appends one user
\* message and then one empty assistant message to the history of the tab
\* that is active, and to no other; every token is appended to the content
\* of that assistant message, in the history of the tab that was active at
\* submission whatever tab is active by then, and changes nothing else;
\* at most one question is being answered, and isAsking is false again
\* once its stream is over.
ClaimChat ==
    /\ [](Len(chat.streams) <= 1)
    /\ [](chat.isAsking <=> chat.streams # << >>)
    /\ [][chat'.chatHistories # chat.chatHistories => Accepting \/ Streaming]_vars
    /\ [][Accepting =>
              LET tab == chat.activeTab
                  before == chat.chatHistories[tab]
                  after == chat'.chatHistories[tab]
              IN  /\ Trim(chat.question) # << >>
                  /\ ~chat.isAsking
                  /\ Len(after) = Len(before) + 2
                  /\ SubSeq(after, 1, Len(before)) = before
                  /\ after[Len(before) + 1].role = "user"
                  /\ after[Len(before) + 1].content = chat.question
                  /\ after[Len(before) + 2].role = "assistant"
                  /\ after[Len(before) + 2].content = << >>
                  /\ after[Len(before) + 2].id = chat'.streams[1].tempBotId
                  /\ chat'.streams[1].activeTab = tab
                  /\ OtherTabsSame(tab)]_vars
    /\ [][Streaming =>
              LET stream == chat.streams[1]
                  tab == stream.activeTab
                  before == chat.chatHistories[tab]
                  after == chat'.chatHistories[tab]
              IN  /\ OtherTabsSame(tab)
                  /\ Len(after) = Len(before)
                  /\ \A i \in 1..Len(before) :
                         IF before[i].id = stream.tempBotId
                         THEN /\ before[i].role = "assistant"
                              /\ \E token \in Tokens :
                                     after[i] = [before[i] EXCEPT
                                                    !.content = @ \o token]
                         ELSE after[i] = before[i]
                  /\ \E i \in 1..Len(before) : before[i].id = stream.tempBotId]_vars
    /\ [][Ending => ~chat'.isAsking /\ chat'.chatHistories = chat.chatHistories]_vars

\* The answer to a second question on a tab has received a token while
\* another tab is active.
ClaimChatWitness ==
    /\ chat.streams # << >>
    /\ chat.streams[1].yielded > 0
    /\ chat.activeTab # chat.streams[1].activeTab
    /\ Len(chat.chatHistories[chat.streams[1].activeTab]) = 4
    /\ chat.chatHistories[chat.streams[1].activeTab][4].content # << >>
    /\ chat.chatHistories[chat.activeTab] = << >>

====
